---- MODULE Spec2Model ----
(***************************************************************************)
(* Storefront backend: cart, coupon engine, checkout-session creation and  *)
(* the payment-confirmation webhook (order, stock, coupon usage, cart).    *)
(* Money is kept in integer cents.  Every database call of a handler that  *)
(* is awaited separately is one step of that handler, so that concurrent   *)
(* webhook invocations interleave exactly where the event loop lets them.  *)
(***************************************************************************)
EXTENDS Integers, Sequences, FiniteSets, TLC

\* ------------------------------------------------------------------ bounds
InitStock == 1
MaxQty == 1
MaxSessions == 2
MaxDeliveries == 2
MaxFailures == 1
MaxTime == 2
MaxUsed == 2
MaxRequests == 3

\* ------------------------------------------------------------- universes
NULL == "null"      \* a null string field
None == <<>>        \* a null number field
Some(v) == <<v>>
Users == {"u1", "u2"}
Products == {"p1", "p2"}
Codes == {"DEAL"}

\* list prices in cents
PriceOf == [p \in Products |-> IF p = "p1" THEN 3000 ELSE 5000]

VARIABLES
    products,   \* product id -> [price, discountedPrice, stock, isActive, sizes, colors,
                \*                negotiationEnabled, hiddenBottomPrice]
    carts,      \* the carts collection: owning user -> [items, appliedCoupon]
    coupons,    \* the coupons collection: code -> coupon document
    orders,     \* the orders collection, in insertion order
    sessions,   \* checkout sessions held by the payment provider
    inv,        \* the handleWebhook invocations in progress, in arrival order
    fx,         \* per session: deliveries, responses and effects applied so far
    failures,   \* database calls that have rejected so far
    now,        \* the clock
    probe       \* argument/result record of the pure coupon functions

vars == <<products, carts, coupons, orders, sessions, inv, fx, failures, now, probe>>

\* ---------------------------------------------------------------- helpers
Min(a, b) == IF a < b THEN a ELSE b
Max(a, b) == IF a > b THEN a ELSE b

RECURSIVE SumSeq(_)
SumSeq(s) == IF s = <<>> THEN 0 ELSE Head(s) + SumSeq(Tail(s))

\* items.reduce((sum, i) => sum + i.price * i.quantity, 0)
Subtotal(items) == SumSeq([k \in 1..Len(items) |-> items[k].price * items[k].quantity])

\* product.discountedPrice ?? product.price
EffectivePrice(prod) ==
    IF prod.discountedPrice # None THEN prod.discountedPrice[1] ELSE prod.price

NoCoupon == [code |-> NULL, discountType |-> NULL, discountValue |-> 0]

\* new Cart({ userId, items: [] })
EmptyCart == [items |-> <<>>, appliedCoupon |-> NoCoupon]

\* cartItemSchema: quantity has min 1; save() rejects a document violating it
CartValid(cart) == \A k \in 1..Len(cart.items) : cart.items[k].quantity >= 1

\* seq without its i-th element
Remove(seq, i) == [k \in 1..(Len(seq) - 1) |-> IF k < i THEN seq[k] ELSE seq[k + 1]]

\* the line of the cart with the same product, size and color; 0 if none
FindLine(items, p, size, color) ==
    IF \E k \in 1..Len(items) :
          items[k].productId = p /\ items[k].size = size /\ items[k].color = color
    THEN CHOOSE k \in 1..Len(items) :
          /\ items[k].productId = p /\ items[k].size = size /\ items[k].color = color
          /\ \A j \in 1..(k - 1) :
                ~(items[j].productId = p /\ items[j].size = size /\ items[j].color = color)
    ELSE 0

\* ---------------------------------------------------------- coupon engine
\* Math.round(x * 100) / 100 on an amount given in hundredths of a cent:
\* the nearest cent, a half rounding up
Round2(h) == (2 * h + 100) \div 200

CouponDoc(type, value, minPurchase, maxDiscount, expiresAt, usageLimit, onePerUser) ==
    [discountType |-> type, discountValue |-> value, minPurchase |-> minPurchase,
     maxDiscount |-> maxDiscount, expiresAt |-> expiresAt, usageLimit |-> usageLimit,
     usedCount |-> 0, usedBy |-> <<>>, onePerUser |-> onePerUser, isActive |-> TRUE]

\* the coupon generateCoupon creates at time t: a single use, 24 hours
NegotiationCoupon(type, value, t) ==
    CouponDoc(type, value, 0, None, Some(t + 24), Some(1), TRUE)

AlreadyUsed(c, userId) == \E k \in 1..Len(c.usedBy) : c.usedBy[k] = userId

R_INACTIVE == "Coupon is inactive"
R_EXPIRED == "Coupon has expired"
R_LIMIT == "Coupon usage limit reached"
R_USED == "You have already used this coupon"
R_MIN == "Minimum purchase required"
R_OK == "valid"

\* (mutant) the one-per-user check comes before the usage limit check
isValid_UsedBeforeLimit(c, cartSubtotal, userId, t) ==
    IF ~c.isActive THEN [valid |-> FALSE, reason |-> R_INACTIVE]
    ELSE IF c.expiresAt # None /\ t > c.expiresAt[1]
    THEN [valid |-> FALSE, reason |-> R_EXPIRED]
    ELSE IF c.onePerUser /\ userId # NULL /\ AlreadyUsed(c, userId)
    THEN [valid |-> FALSE, reason |-> R_USED]
    ELSE IF c.usageLimit # None /\ c.usedCount >= c.usageLimit[1]
    THEN [valid |-> FALSE, reason |-> R_LIMIT]
    ELSE IF cartSubtotal < c.minPurchase
    THEN [valid |-> FALSE, reason |-> R_MIN]
    ELSE [valid |-> TRUE, reason |-> R_OK]

isValid(c, cartSubtotal, userId, t) ==
    IF ~c.isActive THEN [valid |-> FALSE, reason |-> R_INACTIVE]
    ELSE IF c.expiresAt # None /\ t > c.expiresAt[1]
    THEN [valid |-> FALSE, reason |-> R_EXPIRED]
    ELSE IF c.usageLimit # None /\ c.usedCount >= c.usageLimit[1]
    THEN [valid |-> FALSE, reason |-> R_LIMIT]
    ELSE IF c.onePerUser /\ userId # NULL /\ AlreadyUsed(c, userId)
    THEN [valid |-> FALSE, reason |-> R_USED]
    ELSE IF cartSubtotal < c.minPurchase
    THEN [valid |-> FALSE, reason |-> R_MIN]
    ELSE [valid |-> TRUE, reason |-> R_OK]

\* (mutant) the max discount cap is not applied
calculateDiscount_NoCap(c, subtotal) ==
    LET raw == IF c.discountType = "percentage" THEN subtotal * c.discountValue
               ELSE IF c.discountType = "fixed" THEN c.discountValue * 100
               ELSE 0
    IN  Round2(Min(raw, subtotal * 100))

\* the discount in cents; intermediate amounts are in hundredths of a cent
calculateDiscount(c, subtotal) ==
    LET raw == IF c.discountType = "percentage" THEN subtotal * c.discountValue
               ELSE IF c.discountType = "fixed" THEN c.discountValue * 100
               ELSE 0
        capped == IF c.maxDiscount # None /\ raw > c.maxDiscount[1] * 100
                  THEN c.maxDiscount[1] * 100 ELSE raw
    IN  Round2(Min(capped, subtotal * 100))

\* ------------------------------------------------------------ negotiation
N_NOT_ELIGIBLE == "This product is not eligible for negotiation."
N_NO_FLOOR == "No negotiation price configured for this product."
N_BELOW_FLOOR == "Discount exceeds our minimum price."
N_OK == "allowed"

\* the pairs <<currentPrice, maxAllowedDiscount>> (cents) of the catalogues
\* used here for which the IEEE-754 double (max / price) * 100 * 10, computed
\* on the amounts in currency units, falls just below its exact integer
\* value: (29 / 50) * 100 * 10 = 579.9999999999999 and
\* (29 / 100) * 100 * 10 = 289.99999999999994
DoubleShortfall == {<<5000, 2900>>, <<10000, 2900>>}

\* Math.floor((maxAllowedDiscount / currentPrice) * 100 * 10), in doubles
MaxPercentageTenths(currentPrice, maxAllowedDiscount) ==
    LET exact == (maxAllowedDiscount * 1000) \div currentPrice
    IN  IF <<currentPrice, maxAllowedDiscount>> \in DoubleShortfall THEN exact - 1
        ELSE exact

\* the verdict record; maxPercentage is in tenths of a percent, amounts in cents
Verdict(allowed, reason, maxDiscount, maxPercentage, discountAmount, effectivePrice) ==
    [allowed |-> allowed, reason |-> reason, maxDiscount |-> maxDiscount,
     maxPercentage |-> maxPercentage, discountAmount |-> discountAmount,
     effectivePrice |-> effectivePrice]

\* validateDiscount(product, discountType, discountValue); discountValue is a
\* percentage, or cents for any other type
validateDiscount(product, discountType, discountValue) ==
    LET currentPrice == EffectivePrice(product)
        bottomPrice == product.hiddenBottomPrice
        amountH == IF discountType = "percentage" THEN currentPrice * discountValue
                   ELSE discountValue * 100
        effectiveH == currentPrice * 100 - amountH
        maxAllowedDiscount == currentPrice - bottomPrice[1]
    IN  IF ~product.negotiationEnabled
        THEN Verdict(FALSE, N_NOT_ELIGIBLE, Some(0), None, None, None)
        ELSE IF bottomPrice = None
        THEN Verdict(FALSE, N_NO_FLOOR, Some(0), None, None, None)
        ELSE IF bottomPrice[1] <= 0
        THEN Verdict(FALSE, N_NO_FLOOR, Some(0), None, None, None)
        ELSE IF effectiveH < bottomPrice[1] * 100
        THEN Verdict(FALSE, N_BELOW_FLOOR, Some(maxAllowedDiscount),
                     Some(MaxPercentageTenths(currentPrice, maxAllowedDiscount)), None, None)
        ELSE Verdict(TRUE, N_OK, Some(maxAllowedDiscount), None,
                     Some(Round2(amountH)), Some(Round2(effectiveH)))

\* the request and the verdict it got
Asked(op, p, discountType, discountValue, verdict) ==
    [op |-> op, productId |-> p, discountType |-> discountType,
     discountValue |-> discountValue, out |-> Some(verdict)]

\* a call of validateDiscount on product p as stored
ValidateProbe(p, discountType, discountValue) ==
    /\ probe' = Asked("validateDiscount", p, discountType, discountValue,
                      validateDiscount(products[p], discountType, discountValue))
    /\ UNCHANGED <<products, carts, coupons, orders, sessions, inv, fx, failures, now>>

\* (mutant) the coupon is created whatever the verdict
generateCoupon_NoGate(p, discountType, discountValue, code) ==
    /\ probe' = Asked("generateCoupon", p, discountType, discountValue,
                      validateDiscount(products[p], discountType, discountValue))
    /\ IF code \in DOMAIN coupons THEN UNCHANGED coupons
       ELSE coupons' = (code :> NegotiationCoupon(discountType, discountValue, now)) @@ coupons
    /\ UNCHANGED <<products, carts, orders, sessions, inv, fx, failures, now>>

\* POST /api/clerk/generate-coupon; code is the generated coupon code, and a
\* code already taken fails on the unique index
generateCoupon(p, discountType, discountValue, code) ==
    LET validation == validateDiscount(products[p], discountType, discountValue)
    IN  /\ probe' = Asked("generateCoupon", p, discountType, discountValue, validation)
        /\ IF ~validation.allowed THEN UNCHANGED coupons
           ELSE IF code \in DOMAIN coupons THEN UNCHANGED coupons
           ELSE coupons' = (code :> NegotiationCoupon(discountType, discountValue, now))
                           @@ coupons
        /\ UNCHANGED <<products, carts, orders, sessions, inv, fx, failures, now>>

\* ------------------------------------------------------ cart pricing view
CartSubtotal(cart) == Subtotal(cart.items)

CartDiscount(cart) ==
    IF cart.appliedCoupon.code = NULL THEN 0
    ELSE IF cart.appliedCoupon.discountType = "percentage"
    THEN Round2(CartSubtotal(cart) * cart.appliedCoupon.discountValue)
    ELSE IF cart.appliedCoupon.discountType = "fixed"
    THEN Min(cart.appliedCoupon.discountValue, CartSubtotal(cart))
    ELSE 0

\* (mutant) the total is not floored at zero
CartTotal_NoFloor(cart) == CartSubtotal(cart) - CartDiscount(cart)

CartTotal(cart) == Max(0, CartSubtotal(cart) - CartDiscount(cart))

\* ------------------------------------------------------- cart operations
\* (mutant) the document is written without validation
SaveCart_NoValidation(u, cart) == carts' = (u :> cart) @@ carts

\* cart.save(): the document is written only if it passes validation
SaveCart(u, cart) ==
    IF CartValid(cart) THEN carts' = (u :> cart) @@ carts
    ELSE UNCHANGED carts

\* an HTTP answer: status, message, and the stock count the message names
Resp(status, message, available) ==
    [status |-> status, message |-> message, available |-> available]

M_ONLY_ITEMS == "Only N items in stock"
M_ONLY_HAS == "NAME only has N in stock"
M_ONLY == "Only N in stock"
M_NOT_FOUND == "Product not found"
M_UNAVAILABLE == "Product NAME is no longer available"
M_OK == "ok"

\* the answer of POST /api/cart/add
addToCartResponse(u, p, quantity, size, color) ==
    LET product == products[p]
        cart == IF u \in DOMAIN carts THEN carts[u] ELSE EmptyCart
        k == FindLine(cart.items, p, size, color)
        newQty == IF k > 0 THEN cart.items[k].quantity + quantity ELSE quantity
    IN  IF ~product.isActive THEN Resp(404, M_NOT_FOUND, None)
        ELSE IF product.stock < quantity THEN Resp(400, M_ONLY_ITEMS, Some(product.stock))
        ELSE IF \/ size # NULL /\ product.sizes # {} /\ size \notin product.sizes
                \/ color # NULL /\ product.colors # {} /\ color \notin product.colors
        THEN Resp(400, "not available", None)
        ELSE IF k > 0 /\ newQty > product.stock
        THEN Resp(400, M_ONLY_ITEMS, Some(product.stock))
        ELSE IF newQty < 1 THEN Resp(500, "Failed to add to cart", None)
        ELSE Resp(200, M_OK, None)

\* (mutant) the stock check is made on the added quantity alone
addToCart_NoMergedCheck(u, p, quantity, size, color) ==
    LET product == products[p]
        cart == IF u \in DOMAIN carts THEN carts[u] ELSE EmptyCart
        k == FindLine(cart.items, p, size, color)
    IN  /\ IF ~product.isActive \/ product.stock < quantity
           THEN UNCHANGED carts
           ELSE IF k > 0
           THEN SaveCart(u, [cart EXCEPT !.items[k].quantity = @ + quantity])
           ELSE SaveCart(u, [cart EXCEPT !.items = Append(@,
                    [productId |-> p, quantity |-> quantity, size |-> size,
                     color |-> color, price |-> EffectivePrice(product)])])
        /\ UNCHANGED <<products, coupons, orders, sessions, inv, fx, failures, now, probe>>

\* (mutant) adding to an existing line refreshes its price from the product
addToCart_Reprice(u, p, quantity, size, color) ==
    LET product == products[p]
        cart == IF u \in DOMAIN carts THEN carts[u] ELSE EmptyCart
        k == FindLine(cart.items, p, size, color)
    IN  /\ IF ~product.isActive \/ product.stock < quantity
           THEN UNCHANGED carts
           ELSE IF k > 0
           THEN IF cart.items[k].quantity + quantity > product.stock
                THEN UNCHANGED carts
                ELSE SaveCart(u, [cart EXCEPT !.items[k].quantity = @ + quantity,
                                              !.items[k].price = EffectivePrice(product)])
           ELSE SaveCart(u, [cart EXCEPT !.items = Append(@,
                    [productId |-> p, quantity |-> quantity, size |-> size,
                     color |-> color, price |-> EffectivePrice(product)])])
        /\ UNCHANGED <<products, coupons, orders, sessions, inv, fx, failures, now, probe>>

\* the ObjectId a request's 24-digit hex id is cast to: the digits in either
\* case name the same id, and its toString() is the lowercase spelling
ObjectId(id) == IF id = "P1" THEN "p1" ELSE id

\* POST /api/cart/add
addToCart(u, p, quantity, size, color) ==
    LET product == products[ObjectId(p)]
        cart == IF u \in DOMAIN carts THEN carts[u] ELSE EmptyCart
        k == FindLine(cart.items, p, size, color)
    IN  /\ IF ~product.isActive \/ product.stock < quantity
           THEN UNCHANGED carts
           ELSE IF \/ size # NULL /\ product.sizes # {} /\ size \notin product.sizes
                   \/ color # NULL /\ product.colors # {} /\ color \notin product.colors
           THEN UNCHANGED carts
           ELSE IF k > 0
           THEN IF cart.items[k].quantity + quantity > product.stock
                THEN UNCHANGED carts
                ELSE SaveCart(u, [cart EXCEPT !.items[k].quantity = @ + quantity])
           ELSE SaveCart(u, [cart EXCEPT !.items = Append(@,
                    [productId |-> ObjectId(p), quantity |-> quantity, size |-> size,
                     color |-> color, price |-> EffectivePrice(product)])])
        /\ UNCHANGED <<products, coupons, orders, sessions, inv, fx, failures, now, probe>>

\* code.toUpperCase(), on the codes a request can name
toUpperCase(code) == IF code = "deal" THEN "DEAL" ELSE code

M_INVALID_CODE == "Invalid coupon code"
M_CART_EMPTY == "Cart is empty"
M_APPLIED == "Coupon applied"

\* the answer of POST /api/coupons/apply
applyCouponToCartResponse(u, code) ==
    IF toUpperCase(code) \notin DOMAIN coupons THEN Resp(404, M_INVALID_CODE, None)
    ELSE IF u \notin DOMAIN carts THEN Resp(400, M_CART_EMPTY, None)
    ELSE IF carts[u].items = <<>> THEN Resp(400, M_CART_EMPTY, None)
    ELSE LET validation == isValid(coupons[toUpperCase(code)], Subtotal(carts[u].items),
                                   u, now)
         IN  IF ~validation.valid THEN Resp(400, validation.reason, None)
             ELSE Resp(200, M_APPLIED, None)

\* (mutant) the coupon is written onto the cart without asking isValid
applyCouponToCart_NoValidation(u, code) ==
    LET key == toUpperCase(code)
    IN  /\ IF key \notin DOMAIN coupons \/ u \notin DOMAIN carts THEN UNCHANGED carts
           ELSE IF carts[u].items = <<>> THEN UNCHANGED carts
           ELSE SaveCart(u, [carts[u] EXCEPT !.appliedCoupon =
                    [code |-> key, discountType |-> coupons[key].discountType,
                     discountValue |-> coupons[key].discountValue]])
        /\ UNCHANGED <<products, coupons, orders, sessions, inv, fx, failures, now, probe>>

\* POST /api/coupons/apply
applyCouponToCart(u, code) ==
    LET key == toUpperCase(code)
        coupon == coupons[key]
        cart == carts[u]
    IN  /\ IF key \notin DOMAIN coupons \/ u \notin DOMAIN carts THEN UNCHANGED carts
           ELSE IF cart.items = <<>> THEN UNCHANGED carts
           ELSE IF ~isValid(coupon, Subtotal(cart.items), u, now).valid
           THEN UNCHANGED carts
           ELSE SaveCart(u, [cart EXCEPT !.appliedCoupon =
                    [code |-> key, discountType |-> coupon.discountType,
                     discountValue |-> coupon.discountValue]])
        /\ UNCHANGED <<products, coupons, orders, sessions, inv, fx, failures, now, probe>>

\* PUT /api/coupons/:id/deactivate
deactivateCoupon(code) ==
    /\ code \in DOMAIN coupons
    /\ coupons' = [coupons EXCEPT ![code].isActive = FALSE]
    /\ UNCHANGED <<products, carts, orders, sessions, inv, fx, failures, now, probe>>

\* DELETE /api/coupons/remove
removeCouponFromCart(u) ==
    /\ IF u \notin DOMAIN carts THEN UNCHANGED carts
       ELSE SaveCart(u, [carts[u] EXCEPT !.appliedCoupon = NoCoupon])
    /\ UNCHANGED <<products, coupons, orders, sessions, inv, fx, failures, now, probe>>

\* the answer of PUT /api/cart/update
updateCartItemResponse(u, itemId, quantity) ==
    IF u \notin DOMAIN carts THEN Resp(404, "Cart not found", None)
    ELSE IF itemId \notin 1..Len(carts[u].items) THEN Resp(404, "Item not found in cart", None)
    ELSE IF quantity <= 0 THEN Resp(200, M_OK, None)
    ELSE IF quantity > products[carts[u].items[itemId].productId].stock
    THEN Resp(400, M_ONLY_ITEMS, Some(products[carts[u].items[itemId].productId].stock))
    ELSE Resp(200, M_OK, None)

\* PUT /api/cart/update; itemId is the position of the line in the cart
updateCartItem(u, itemId, quantity) ==
    /\ IF u \notin DOMAIN carts THEN UNCHANGED carts
       ELSE IF itemId \notin 1..Len(carts[u].items) THEN UNCHANGED carts
       ELSE IF quantity <= 0
       THEN SaveCart(u, [carts[u] EXCEPT !.items = Remove(@, itemId)])
       ELSE IF quantity > products[carts[u].items[itemId].productId].stock
       THEN UNCHANGED carts
       ELSE SaveCart(u, [carts[u] EXCEPT !.items[itemId].quantity = quantity])
    /\ UNCHANGED <<products, coupons, orders, sessions, inv, fx, failures, now, probe>>

\* DELETE /api/cart/remove/:itemId
removeFromCart(u, itemId) ==
    /\ IF u \notin DOMAIN carts THEN UNCHANGED carts
       ELSE IF itemId \notin 1..Len(carts[u].items) THEN UNCHANGED carts
       ELSE SaveCart(u, [carts[u] EXCEPT !.items = Remove(@, itemId)])
    /\ UNCHANGED <<products, coupons, orders, sessions, inv, fx, failures, now, probe>>

\* DELETE /api/cart/clear
clearCart(u) ==
    /\ IF u \notin DOMAIN carts THEN UNCHANGED carts
       ELSE SaveCart(u, EmptyCart)
    /\ UNCHANGED <<products, coupons, orders, sessions, inv, fx, failures, now, probe>>

\* one pass of the syncCart loop: the incoming line merged into items
SyncLine(items, incoming) ==
    LET product == products[ObjectId(incoming.productId)]
        k == FindLine(items, incoming.productId, incoming.size, incoming.color)
        qty == Min(IF incoming.quantity = 0 THEN 1 ELSE incoming.quantity, product.stock)
    IN  IF ~product.isActive THEN items
        ELSE IF k > 0
        THEN [items EXCEPT ![k].quantity = Min(@ + qty, product.stock),
                           ![k].price = EffectivePrice(product)]
        ELSE Append(items, [productId |-> ObjectId(incoming.productId), quantity |-> qty,
                            size |-> incoming.size, color |-> incoming.color,
                            price |-> EffectivePrice(product)])

RECURSIVE SyncAll(_, _)
SyncAll(items, incoming) ==
    IF incoming = <<>> THEN items
    ELSE SyncAll(SyncLine(items, Head(incoming)), Tail(incoming))

\* POST /api/cart/sync
syncCart(u, incoming) ==
    LET cart == IF u \in DOMAIN carts THEN carts[u] ELSE EmptyCart
    IN  /\ IF incoming = <<>> THEN UNCHANGED carts
           ELSE SaveCart(u, [cart EXCEPT !.items = SyncAll(@, incoming)])
        /\ UNCHANGED <<products, coupons, orders, sessions, inv, fx, failures, now, probe>>

\* ------------------------------------------------------ checkout session
\* the amount the provider settles: the line items' unit amounts less the
\* discount of the promotion attached to the session
ProviderAmount(items, code) ==
    IF code = NULL THEN Subtotal(items)
    ELSE Subtotal(items) - calculateDiscount(coupons[code], Subtotal(items))

\* (mutant) only the first line of the cart is checked
StockOk_FirstLineOnly(items) ==
    \A k \in 1..Min(1, Len(items)) :
        /\ products[items[k].productId].isActive
        /\ items[k].quantity <= products[items[k].productId].stock

\* every line's product is active and has stock for the line's quantity
StockOk(items) ==
    \A k \in 1..Len(items) :
        /\ products[items[k].productId].isActive
        /\ items[k].quantity <= products[items[k].productId].stock

\* Coupon.findOne({ code: cart.appliedCoupon.code, isActive: true })
ResolveCoupon(cart) ==
    IF /\ cart.appliedCoupon.code # NULL
       /\ cart.appliedCoupon.code \in DOMAIN coupons
       /\ coupons[cart.appliedCoupon.code].isActive
    THEN cart.appliedCoupon.code
    ELSE NULL

\* nothing delivered, answered or applied yet for a session
NoEffects ==
    [recv |-> 0, acked |-> 0, rejected |-> 0, ignored |-> 0,
     decs |-> 0, recorded |-> 0, cleared |-> 0, errors |-> {}]

\* JSON.stringify(itemsMeta): the text of a line is the list of its values
\* in the order productId, quantity, size, color, price
itemsMeta(items) ==
    [k \in 1..Len(items) |->
        <<items[k].productId, items[k].quantity, items[k].size, items[k].color,
          items[k].price>>]

\* the session the provider creates for cart, with the metadata it will echo
SessionOf(u, cart) ==
    [userId |-> u, cartId |-> u, couponCode |-> ResolveCoupon(cart),
     itemsJson |-> itemsMeta(cart.items),
     amount_total |-> ProviderAmount(cart.items, ResolveCoupon(cart))]

\* the first line of items that fails the check of the stock loop; 0 if none
FirstFailing(items) ==
    IF StockOk(items) THEN 0
    ELSE CHOOSE k \in 1..Len(items) :
            /\ ~StockOk(<<items[k]>>)
            /\ \A j \in 1..(k - 1) : StockOk(<<items[j]>>)

\* the answer of POST /api/payment/create-checkout-session
createCheckoutFromCartResponse(u) ==
    IF u \notin DOMAIN carts THEN Resp(400, "Cart is empty", None)
    ELSE IF carts[u].items = <<>> THEN Resp(400, "Cart is empty", None)
    ELSE LET k == FirstFailing(carts[u].items)
         IN  IF k = 0 THEN Resp(200, M_OK, None)
             ELSE IF ~products[carts[u].items[k].productId].isActive
             THEN Resp(400, M_UNAVAILABLE, None)
             ELSE Resp(400, M_ONLY_HAS, Some(products[carts[u].items[k].productId].stock))

\* (mutant) creating the session reserves the stock of its lines
createCheckoutFromCart_Reserve(u) ==
    /\ Len(sessions) < MaxSessions
    /\ u \in DOMAIN carts
    /\ carts[u].items # <<>>
    /\ StockOk(carts[u].items)
    /\ sessions' = Append(sessions, SessionOf(u, carts[u]))
    /\ fx' = Append(fx, NoEffects)
    /\ products' = [p \in Products |->
           [products[p] EXCEPT !.stock = @ - SumSeq([k \in 1..Len(carts[u].items) |->
               IF carts[u].items[k].productId = p THEN carts[u].items[k].quantity ELSE 0])]]
    /\ UNCHANGED <<carts, coupons, orders, inv, failures, now, probe>>

\* POST /api/payment/create-checkout-session
createCheckoutFromCart(u) ==
    /\ Len(sessions) < MaxSessions
    /\ u \in DOMAIN carts
    /\ carts[u].items # <<>>
    /\ StockOk(carts[u].items)
    /\ sessions' = Append(sessions, SessionOf(u, carts[u]))
    /\ fx' = Append(fx, NoEffects)
    /\ UNCHANGED <<products, carts, coupons, orders, inv, failures, now, probe>>

\* the answer of POST /api/payment/create-single-checkout
createSingleProductCheckoutResponse(p, quantity) ==
    IF ~products[p].isActive THEN Resp(404, M_NOT_FOUND, None)
    ELSE IF quantity > products[p].stock THEN Resp(400, M_ONLY, Some(products[p].stock))
    ELSE Resp(200, M_OK, None)

\* (mutant) the quick-buy session carries the buyer's cart id
createSingleProductCheckout_WithCart(u, p, quantity, size, color) ==
    LET line == [productId |-> p, quantity |-> quantity, size |-> size, color |-> color,
                 price |-> EffectivePrice(products[p])]
    IN  /\ Len(sessions) < MaxSessions
        /\ products[p].isActive
        /\ quantity <= products[p].stock
        /\ sessions' = Append(sessions,
               [userId |-> u, cartId |-> u, couponCode |-> NULL, itemsJson |-> itemsMeta(<<line>>),
                amount_total |-> ProviderAmount(<<line>>, NULL)])
        /\ fx' = Append(fx, NoEffects)
        /\ UNCHANGED <<products, carts, coupons, orders, inv, failures, now, probe>>

\* POST /api/payment/create-single-checkout: a session of one line, with no
\* cart id and no coupon code in its metadata
createSingleProductCheckout(u, p, quantity, size, color) ==
    LET line == [productId |-> p, quantity |-> quantity, size |-> size, color |-> color,
                 price |-> EffectivePrice(products[p])]
    IN  /\ Len(sessions) < MaxSessions
        /\ products[p].isActive
        /\ quantity <= products[p].stock
        /\ sessions' = Append(sessions,
               [userId |-> u, cartId |-> NULL, couponCode |-> NULL, itemsJson |-> itemsMeta(<<line>>),
                amount_total |-> ProviderAmount(<<line>>, NULL)])
        /\ fx' = Append(fx, NoEffects)
        /\ UNCHANGED <<products, carts, coupons, orders, inv, failures, now, probe>>

\* ------------------------------------------------------ payment webhook
\* metadata without itemsJson, and an itemsJson text that is not JSON
Missing == << <<"undefined">> >>
Garbage == << <<"{">> >>

\* JSON.parse(session.metadata.itemsJson || "[]"), read by the field names
\* the Order is built from; items stays [] when the text does not parse
ParseItems(session) ==
    LET absent == IF Len(session.itemsJson) = 1
                  THEN IF Len(session.itemsJson[1]) = 1
                       THEN session.itemsJson[1][1] = "undefined"
                       ELSE FALSE
                  ELSE FALSE
        text == IF absent THEN <<>> ELSE session.itemsJson
    IN  IF \E k \in 1..Len(text) : Len(text[k]) # 5
        THEN <<>>
        ELSE [k \in 1..Len(text) |->
                [productId |-> text[k][1], quantity |-> text[k][2],
                 size |-> text[k][3], color |-> text[k][4], price |-> text[k][5]]]

\* (mutant) the order lines are read from the cart as it is when the event
\* arrives
OrderOf_LiveCart(sid) ==
    LET session == sessions[sid]
        items == IF session.cartId \in DOMAIN carts THEN carts[session.cartId].items
                 ELSE ParseItems(session)
    IN  [userId |-> session.userId, items |-> items, subtotal |-> Subtotal(items),
         discount |-> Max(0, Subtotal(items) - session.amount_total),
         couponCode |-> session.couponCode, total |-> session.amount_total,
         stripeSessionId |-> sid, status |-> "paid"]

\* (mutant) the discount is subtotal less settled amount, not floored at 0
OrderOf_NoFloor(sid) ==
    LET session == sessions[sid]
        items == ParseItems(session)
    IN  [userId |-> session.userId, items |-> items, subtotal |-> Subtotal(items),
         discount |-> Subtotal(items) - session.amount_total,
         couponCode |-> session.couponCode, total |-> session.amount_total,
         stripeSessionId |-> sid, status |-> "paid"]

\* the Order document handleWebhook builds for a session
OrderOf(sid) ==
    LET session == sessions[sid]
        items == ParseItems(session)
    IN  [userId |-> session.userId, items |-> items, subtotal |-> Subtotal(items),
         discount |-> Max(0, Subtotal(items) - session.amount_total),
         couponCode |-> session.couponCode, total |-> session.amount_total,
         stripeSessionId |-> sid, status |-> "paid"]

\* (mutant) an order with no items passes validation
OrderValid_AllowEmpty(order) ==
    \A k \in 1..Len(order.items) : order.items[k].quantity >= 1

\* orderSchema validation: at least one item, every quantity >= 1
OrderValid(order) ==
    /\ order.items # <<>>
    /\ \A k \in 1..Len(order.items) : order.items[k].quantity >= 1

\* (mutant) the collection has no unique index on stripeSessionId
SessionIdFree_NoIndex(sid) == TRUE

\* the unique index on stripeSessionId
SessionIdFree(sid) == \A k \in 1..Len(orders) : orders[k].stripeSessionId # sid

\* res.json({ received: true }) after the try block or its catch: the
\* invocation ends
Ack(i) ==
    /\ inv' = Remove(inv, i)
    /\ fx' = [fx EXCEPT ![inv[i].session].acked = @ + 1]

\* invocation i goes on to step pc, having applied effect f (NULL: none) for
\* its session; step "done" is the acknowledgement
Goto(i, pc, f) ==
    LET sid == inv[i].session
        done == [fx EXCEPT ![sid].decs = IF f = "decs" THEN @ + 1 ELSE @,
                           ![sid].recorded = IF f = "recorded" THEN @ + 1 ELSE @,
                           ![sid].cleared = IF f = "cleared" THEN @ + 1 ELSE @]
    IN  IF pc = "done"
        THEN /\ inv' = Remove(inv, i)
             /\ fx' = [done EXCEPT ![sid].acked = @ + 1]
        ELSE /\ inv' = [inv EXCEPT ![i].pc = pc]
             /\ fx' = done

\* the step after the stock loop, and the step after the coupon block
AfterCoupon(sid) == IF sessions[sid].cartId # NULL THEN "clearCart" ELSE "done"
\* (mutant) the coupon block is left out
AfterStock_SkipCoupon(sid) == AfterCoupon(sid)
AfterStock(sid) == IF sessions[sid].couponCode # NULL THEN "findCoupon" ELSE AfterCoupon(sid)

Deliveries == SumSeq([k \in 1..Len(fx) |-> fx[k].recv + fx[k].rejected + fx[k].ignored])

\* (mutant) the signature error is answered with 400 but the handler does
\* not return
Receive_NoReturn(sid, sigOk, type) ==
    /\ Deliveries < MaxDeliveries
    /\ sid \in 1..Len(sessions)
    /\ IF sigOk /\ type # "checkout.session.completed"
       THEN /\ fx' = [fx EXCEPT ![sid].ignored = @ + 1]
            /\ UNCHANGED inv
       ELSE /\ fx' = IF sigOk THEN [fx EXCEPT ![sid].recv = @ + 1]
                     ELSE [fx EXCEPT ![sid].rejected = @ + 1]
            /\ inv' = Append(inv, [session |-> sid, pc |-> "save", idx |-> 1, readCount |-> 0])
    /\ UNCHANGED <<products, carts, coupons, orders, sessions, failures, now, probe>>

\* (mutant) the handler starts with the stock loop and stores no order
Receive_StockFirst(sid, sigOk, type) ==
    /\ Deliveries < MaxDeliveries
    /\ sid \in 1..Len(sessions)
    /\ IF ~sigOk
       THEN /\ fx' = [fx EXCEPT ![sid].rejected = @ + 1]
            /\ UNCHANGED inv
       ELSE IF type # "checkout.session.completed"
       THEN /\ fx' = [fx EXCEPT ![sid].ignored = @ + 1]
            /\ UNCHANGED inv
       ELSE /\ fx' = [fx EXCEPT ![sid].recv = @ + 1]
            /\ inv' = Append(inv, [session |-> sid, pc |-> "stock", idx |-> 1, readCount |-> 0])
    /\ UNCHANGED <<products, carts, coupons, orders, sessions, failures, now, probe>>

\* the request arrives: constructWebhookEvent verifies the signature, then
\* the event type is looked at and the order is built
Receive(sid, sigOk, type) ==
    /\ Deliveries < MaxDeliveries
    /\ sid \in 1..Len(sessions)
    /\ IF ~sigOk
       THEN /\ fx' = [fx EXCEPT ![sid].rejected = @ + 1]
            /\ UNCHANGED inv
       ELSE IF type # "checkout.session.completed"
       THEN /\ fx' = [fx EXCEPT ![sid].ignored = @ + 1]
            /\ UNCHANGED inv
       ELSE /\ fx' = [fx EXCEPT ![sid].recv = @ + 1]
            /\ inv' = Append(inv, [session |-> sid, pc |-> "save", idx |-> 1, readCount |-> 0])
    /\ UNCHANGED <<products, carts, coupons, orders, sessions, failures, now, probe>>

\* (mutant) a duplicate key error of order.save() is swallowed and the
\* pipeline goes on
SaveOrder_IgnoreDuplicate(i) ==
    /\ inv[i].pc = "save"
    /\ LET sid == inv[i].session
           order == OrderOf(sid)
       IN  IF ~OrderValid(order)
           THEN /\ Ack(i)
                /\ UNCHANGED orders
           ELSE /\ orders' = IF SessionIdFree(sid) THEN Append(orders, order) ELSE orders
                /\ Goto(i, "stock", NULL)
    /\ UNCHANGED <<products, carts, coupons, sessions, failures, now, probe>>

\* await order.save()
SaveOrder(i) ==
    /\ inv[i].pc = "save"
    /\ LET sid == inv[i].session
           order == OrderOf(sid)
       IN  IF OrderValid(order) /\ SessionIdFree(sid)
           THEN /\ orders' = Append(orders, order)
                /\ Goto(i, "stock", NULL)
           ELSE /\ Ack(i)
                /\ UNCHANGED orders
    /\ UNCHANGED <<products, carts, coupons, sessions, failures, now, probe>>

\* (mutant) the stock is written from a read taken before any fulfillment,
\* less the quantity, instead of being decremented in place
DecStock_StaleWrite(i) ==
    /\ inv[i].pc = "stock"
    /\ LET sid == inv[i].session
           items == ParseItems(sessions[sid])
           item == items[inv[i].idx]
       IN  /\ products' = [products EXCEPT ![item.productId].stock = InitStock - item.quantity]
           /\ IF inv[i].idx < Len(items)
              THEN /\ inv' = [inv EXCEPT ![i].idx = @ + 1]
                   /\ fx' = [fx EXCEPT ![sid].decs = @ + 1]
              ELSE Goto(i, AfterStock(sid), "decs")
    /\ UNCHANGED <<carts, coupons, orders, sessions, failures, now, probe>>

\* await Product.findByIdAndUpdate(item.productId, { $inc: { stock: -item.quantity } })
DecStock(i) ==
    /\ inv[i].pc = "stock"
    /\ LET sid == inv[i].session
           items == ParseItems(sessions[sid])
           item == items[inv[i].idx]
       IN  /\ products' = [products EXCEPT ![item.productId].stock = @ - item.quantity]
           /\ IF inv[i].idx < Len(items)
              THEN /\ inv' = [inv EXCEPT ![i].idx = @ + 1]
                   /\ fx' = [fx EXCEPT ![sid].decs = @ + 1]
              ELSE Goto(i, AfterStock(sid), "decs")
    /\ UNCHANGED <<carts, coupons, orders, sessions, failures, now, probe>>

\* await Coupon.findOne({ code: couponCode })
FindCoupon(i) ==
    /\ inv[i].pc = "findCoupon"
    /\ LET sid == inv[i].session
           code == sessions[sid].couponCode
       IN  IF code \in DOMAIN coupons
           THEN /\ inv' = [inv EXCEPT ![i].readCount = coupons[code].usedCount,
                                      ![i].pc = "recordUsage"]
                /\ UNCHANGED fx
           ELSE Goto(i, AfterCoupon(sid), NULL)
    /\ UNCHANGED <<products, carts, coupons, orders, sessions, failures, now, probe>>

\* (mutant) the usage record is pushed but usedCount is not incremented
recordUsage_NoCount(c, readCount, userId) ==
    [c EXCEPT !.usedBy = IF userId # NULL THEN Append(@, userId) ELSE @]

\* coupon.recordUsage(userId) on the document read by findOne: save() writes
\* usedCount as read plus one and pushes the usage record
recordUsage(c, readCount, userId) ==
    [c EXCEPT !.usedCount = readCount + 1,
              !.usedBy = IF userId # NULL THEN Append(@, userId) ELSE @]

\* await coupon.recordUsage(userId)
RecordUsage(i) ==
    /\ inv[i].pc = "recordUsage"
    /\ LET sid == inv[i].session
           code == sessions[sid].couponCode
       IN  /\ coupons' = [coupons EXCEPT
                  ![code] = recordUsage(@, inv[i].readCount, sessions[sid].userId)]
           /\ Goto(i, AfterCoupon(sid), "recorded")
    /\ UNCHANGED <<products, carts, orders, sessions, failures, now, probe>>

\* (mutant) only the lines the session paid for are taken out of the cart
ClearCart_OrderedLines(i) ==
    /\ inv[i].pc = "clearCart"
    /\ LET cartId == sessions[inv[i].session].cartId
           paid == ParseItems(sessions[inv[i].session])
           kept == {k \in 1..Len(carts[cartId].items) :
                      \A j \in 1..Len(paid) :
                          paid[j].productId # carts[cartId].items[k].productId}
       IN  carts' = IF cartId \in DOMAIN carts
                    THEN [carts EXCEPT ![cartId] =
                            [items |-> IF kept = {} THEN <<>>
                                       ELSE <<carts[cartId].items[CHOOSE k \in kept : TRUE]>>,
                             appliedCoupon |-> NoCoupon]]
                    ELSE carts
    /\ Goto(i, "done", "cleared")
    /\ UNCHANGED <<products, coupons, orders, sessions, failures, now, probe>>

\* await Cart.findByIdAndUpdate(cartId, { items: [], appliedCoupon: {...} })
ClearCart(i) ==
    /\ inv[i].pc = "clearCart"
    /\ LET cartId == sessions[inv[i].session].cartId
       IN  carts' = IF cartId \in DOMAIN carts
                    THEN [carts EXCEPT ![cartId] = EmptyCart]
                    ELSE carts
    /\ Goto(i, "done", "cleared")
    /\ UNCHANGED <<products, coupons, orders, sessions, failures, now, probe>>

\* (mutant) the catch block returns without answering the provider
DbError_NoResponse(i) ==
    /\ failures < MaxFailures
    /\ inv[i].pc \in {"save", "stock", "findCoupon", "recordUsage", "clearCart"}
    /\ failures' = failures + 1
    /\ inv' = Remove(inv, i)
    /\ fx' = [fx EXCEPT ![inv[i].session].errors = @ \cup {inv[i].pc}]
    /\ UNCHANGED <<products, carts, coupons, orders, sessions, now, probe>>

\* (mutant) every step has its own catch: after a rejected call the pipeline
\* goes on with the next block
DbError_Continue(i) ==
    /\ failures < MaxFailures
    /\ inv[i].pc \in {"save", "stock", "findCoupon", "recordUsage", "clearCart"}
    /\ failures' = failures + 1
    /\ LET sid == inv[i].session
           next == IF inv[i].pc = "stock" THEN AfterStock(sid)
                   ELSE IF inv[i].pc \in {"findCoupon", "recordUsage"} THEN AfterCoupon(sid)
                   ELSE "done"
           marked == [fx EXCEPT ![sid].errors = @ \cup {inv[i].pc}]
       IN  IF next = "done"
           THEN /\ inv' = Remove(inv, i)
                /\ fx' = [marked EXCEPT ![sid].acked = @ + 1]
           ELSE /\ inv' = [inv EXCEPT ![i].pc = next]
                /\ fx' = marked
    /\ UNCHANGED <<products, carts, coupons, orders, sessions, now, probe>>

\* any awaited database call of the pipeline may reject instead: the catch
\* logs the error and the event is acknowledged
DbError(i) ==
    /\ failures < MaxFailures
    /\ inv[i].pc \in {"save", "stock", "findCoupon", "recordUsage", "clearCart"}
    /\ failures' = failures + 1
    /\ inv' = Remove(inv, i)
    /\ fx' = [fx EXCEPT ![inv[i].session].acked = @ + 1,
                        ![inv[i].session].errors = @ \cup {inv[i].pc}]
    /\ UNCHANGED <<products, carts, coupons, orders, sessions, now, probe>>

\* ------------------------------------------------------- specification
EventTypes == {"checkout.session.completed", "checkout.session.expired"}

\* the shop before any request: the catalogue, one negotiation coupon
Idle ==
    /\ products = [p \in Products |->
                    [price |-> PriceOf[p], discountedPrice |-> None, stock |-> InitStock,
                     isActive |-> TRUE, sizes |-> {}, colors |-> {},
                     negotiationEnabled |-> TRUE,
                     hiddenBottomPrice |-> Some(PriceOf[p] \div 2)]]
    /\ coupons = [c \in Codes |-> NegotiationCoupon("percentage", 20, 0)]
    /\ orders = <<>>
    /\ inv = <<>>
    /\ failures = 0

\* no cart and no checkout session yet
NoSessions == carts = <<>> /\ sessions = <<>> /\ fx = <<>>

Init == Idle /\ NoSessions /\ now = 0 /\ probe = <<>>

\* one step of a handleWebhook invocation in progress
HandlerStep(i) ==
    \/ DbError(i)
    \/ ClearCart(i)
    \/ FindCoupon(i)
    \/ RecordUsage(i)
    \/ DecStock(i)
    \/ SaveOrder(i)

\* the shop with shoppers US buying products PS
ShopNext(US, PS) ==
    \/ \E u \in US, p \in PS, q \in 1..MaxQty : addToCart(u, p, q, NULL, NULL)
    \/ \E u \in US, code \in Codes : applyCouponToCart(u, code)
    \/ \E u \in US : createCheckoutFromCart(u)
    \/ \E sid \in 1..MaxSessions, sigOk \in BOOLEAN, type \in EventTypes :
          Receive(sid, sigOk, type)
    \/ \E i \in 1..Len(inv) : SaveOrder(i)
    \/ \E i \in 1..Len(inv) : DecStock(i)
    \/ \E i \in 1..Len(inv) : FindCoupon(i)
    \/ \E i \in 1..Len(inv) : RecordUsage(i)
    \/ \E i \in 1..Len(inv) : ClearCart(i)
    \/ \E i \in 1..Len(inv) : DbError(i)

\* one shopper and one product: sessions of the same cart, delivered,
\* redelivered and handled concurrently
Next == ShopNext({"u1"}, {"p1"})

Spec == Init /\ [][Next]_vars

\* the pipeline alone: the shopper has put one p1 in the cart, applied the
\* coupon or not, and opened between one and MaxSessions checkout sessions
\* from that cart; from then on only events arrive and are handled
PipelineInit ==
    /\ Idle
    /\ now = 0
    /\ probe = <<>>
    /\ \E withCoupon \in BOOLEAN, n \in 1..MaxSessions :
          LET line == [productId |-> "p1", quantity |-> 1, size |-> NULL, color |-> NULL,
                       price |-> PriceOf["p1"]]
              snapshot == [code |-> "DEAL", discountType |-> "percentage",
                           discountValue |-> 20]
              cart == [items |-> <<line>>,
                       appliedCoupon |-> IF withCoupon THEN snapshot ELSE NoCoupon]
          IN  /\ carts = ("u1" :> cart)
              /\ sessions = [k \in 1..n |-> SessionOf("u1", cart)]
              /\ fx = [k \in 1..n |-> NoEffects]

PipelineNext ==
    \/ \E sid \in 1..MaxSessions, sigOk \in BOOLEAN, type \in EventTypes :
          Receive(sid, sigOk, type)
    \/ \E i \in 1..Len(inv) : SaveOrder(i)
    \/ \E i \in 1..Len(inv) : DecStock(i)
    \/ \E i \in 1..Len(inv) : FindCoupon(i)
    \/ \E i \in 1..Len(inv) : RecordUsage(i)
    \/ \E i \in 1..Len(inv) : ClearCart(i)
    \/ \E i \in 1..Len(inv) : DbError(i)

\* every database call of an invocation in progress eventually returns or
\* rejects, so every invocation goes on
FairSpec ==
    /\ PipelineInit
    /\ [][PipelineNext]_vars
    /\ WF_vars(\E i \in 1..MaxDeliveries : i <= Len(inv) /\ HandlerStep(i))

\* ------------------------------------------------------------ properties
Sids == 1..Len(sessions)

\* the orders stored for a session id
OrdersFor(sid) == Cardinality({k \in 1..Len(orders) : orders[k].stripeSessionId = sid})

\* no handleWebhook invocation for the session is in progress
Quiet(sid) == \A i \in 1..Len(inv) : inv[i].session # sid

Lines(sid) == Len(ParseItems(sessions[sid]))

\* the session carries a coupon code that resolves to a coupon
HasCoupon(sid) ==
    sessions[sid].couponCode # NULL /\ sessions[sid].couponCode \in DOMAIN coupons

\* the quantity of product p a session has ordered
QtyIn(sid, p) ==
    LET items == ParseItems(sessions[sid])
    IN  SumSeq([k \in 1..Len(items) |->
                  IF items[k].productId = p THEN items[k].quantity ELSE 0])

\* the quantity of product p ordered by the sessions confirmed so far
QtyConfirmed(p) ==
    SumSeq([sid \in 1..Len(sessions) |-> IF fx[sid].recv > 0 THEN QtyIn(sid, p) ELSE 0])

\* C1: when the same signature-valid event has been delivered twice or more
\* for a session and handled without a database error, there is exactly one
\* order for the session, each of its lines has been decremented from stock
\* exactly once and at most one coupon usage has been recorded for it; with
\* nothing in progress and no database error at all, the stock of a product
\* is its initial stock less the quantities of the confirmed sessions.
C1_DuplicateDelivery ==
    /\ \A sid \in Sids :
          (fx[sid].recv >= 2 /\ Quiet(sid) /\ fx[sid].errors = {}) =>
              /\ OrdersFor(sid) = 1
              /\ fx[sid].decs = Lines(sid)
              /\ fx[sid].recorded <= 1
    /\ (inv = <<>> /\ failures = 0) =>
          \A p \in Products : products[p].stock = InitStock - QtyConfirmed(p)

C1_Witness ==
    \E sid \in Sids :
        /\ fx[sid].recv = 2 /\ Quiet(sid) /\ fx[sid].errors = {}
        /\ OrdersFor(sid) = 1 /\ fx[sid].recorded = 1 /\ failures = 0

\* C2: in every state, whatever the interleaving of the invocations for a
\* session, there is at most one order for the session, and its stock
\* decrements, its coupon usage recording and its cart clearing have each
\* been applied at most once.
C2_AtMostOnce ==
    \A sid \in Sids :
        /\ OrdersFor(sid) <= 1
        /\ fx[sid].decs <= Lines(sid)
        /\ fx[sid].recorded <= 1
        /\ fx[sid].cleared <= 1

\* two invocations for one session in progress, one past order.save()
C2_Witness ==
    \E i, j \in 1..Len(inv) :
        /\ i # j /\ inv[i].session = inv[j].session
        /\ inv[i].pc = "stock" /\ inv[j].pc = "save"

\* every effect of the pipeline has been applied for the session
AllApplied(sid) ==
    /\ OrdersFor(sid) = 1
    /\ fx[sid].decs = Lines(sid)
    /\ HasCoupon(sid) => fx[sid].recorded = 1
    /\ sessions[sid].cartId # NULL => fx[sid].cleared = 1

NoneApplied(sid) ==
    /\ OrdersFor(sid) = 0
    /\ fx[sid].decs = 0 /\ fx[sid].recorded = 0 /\ fx[sid].cleared = 0

\* C3 as stated: once the handling of a confirmed session has finished, all
\* four effects are applied or none is.
C3_AllOrNothing ==
    \A sid \in Sids :
        (fx[sid].recv > 0 /\ Quiet(sid)) => (AllApplied(sid) \/ NoneApplied(sid))

\* C3 amended: the effects applied for a session are a prefix of order,
\* stock decrements, coupon usage, cart clearing: the cart is cleared only
\* after the coupon usage is recorded, the usage is recorded only after every
\* line is decremented, a line is decremented only after the order is stored;
\* and all four are applied once the handling finished without a database
\* error.
C3_PrefixOfEffects ==
    \A sid \in Sids :
        /\ fx[sid].cleared > 0 => (HasCoupon(sid) => fx[sid].recorded > 0)
        /\ fx[sid].cleared > 0 => fx[sid].decs = Lines(sid)
        /\ fx[sid].recorded > 0 => fx[sid].decs = Lines(sid)
        /\ fx[sid].decs > 0 => OrdersFor(sid) = 1
        /\ (fx[sid].recv > 0 /\ Quiet(sid) /\ fx[sid].errors = {}) => AllApplied(sid)

\* a session left half fulfilled: order stored and stock decremented, the
\* coupon usage not recorded and the cart not cleared
C3_Witness ==
    \E sid \in Sids :
        /\ Quiet(sid) /\ HasCoupon(sid) /\ OrdersFor(sid) = 1
        /\ fx[sid].decs = Lines(sid) /\ fx[sid].recorded = 0 /\ fx[sid].cleared = 0

\* C4: an event whose signature check fails is answered with 400 and starts
\* nothing: the answer leaves orders, stock, coupons, carts and the
\* invocations in progress as they are, and a session for which only such
\* events arrived has no order, no effect applied and no acknowledgement.
C4_BadSignature ==
    /\ [](\A sid \in Sids :
            fx[sid].recv = 0 =>
                /\ NoneApplied(sid) /\ Quiet(sid) /\ fx[sid].acked = 0)
    /\ [][(\E sid \in Sids : fx'[sid].rejected > fx[sid].rejected) =>
             UNCHANGED <<orders, products, coupons, carts, inv>>]_vars

C4_Witness ==
    \E sid \in Sids : fx[sid].rejected > 0 /\ fx[sid].recv = 0

\* C5: every signature-valid event is eventually acknowledged: the n-th
\* checkout.session.completed event delivered for a session leads to the
\* n-th {received: true} answer for it, database errors or not.
C5_EventuallyAcked ==
    \A sid \in 1..MaxSessions, n \in 1..MaxDeliveries :
        (sid <= Len(fx) /\ fx[sid].recv >= n) ~> (sid <= Len(fx) /\ fx[sid].acked >= n)

\* an event acknowledged although a step of its handling failed
C5_Witness ==
    \E sid \in Sids :
        fx[sid].errors # {} /\ fx[sid].recv > 0 /\ fx[sid].acked = fx[sid].recv

C7_StockNeverNegative == \A p \in Products : products[p].stock >= 0

\* C8: a coupon with a usage limit is never used more often than the limit.
C8_UsageWithinLimit ==
    \A c \in DOMAIN coupons :
        coupons[c].usageLimit # None => coupons[c].usedCount <= coupons[c].usageLimit[1]

\* the sessions with a stored order that carry coupon code c
OrdersWithCoupon(c) ==
    {sid \in Sids : OrdersFor(sid) > 0 /\ sessions[sid].couponCode = c}

\* C9: coupon usage is recorded exactly once per stored order: once the
\* handling of a session with an order and a coupon is over, its usage has
\* been recorded once, and with nothing in progress a coupon's usedCount is
\* the number of orders that carry its code.
C9_UsageOncePerOrder ==
    /\ \A sid \in Sids :
          (Quiet(sid) /\ OrdersFor(sid) > 0 /\ HasCoupon(sid)) => fx[sid].recorded = 1
    /\ inv = <<>> =>
          \A c \in DOMAIN coupons : coupons[c].usedCount = Cardinality(OrdersWithCoupon(c))

\* ------------------------------------------------- Coupon.isValid alone
AllSeqs(S, n) == UNION {[1..k -> S] : k \in 0..n}

\* coupon documents in the states recordUsage and deactivation leave them
ProbeCoupons ==
    {[CouponDoc("fixed", 1000, mp, None, ex, lim, opu)
        EXCEPT !.isActive = act, !.usedBy = ub, !.usedCount = uc] :
        mp \in {0, 5000}, ex \in {None, Some(1)},
        lim \in {None} \cup {Some(k) : k \in 0..MaxUsed},
        opu \in BOOLEAN, act \in BOOLEAN,
        ub \in AllSeqs(Users, MaxUsed), uc \in 0..MaxUsed}

IsValidInit ==
    /\ Idle
    /\ NoSessions
    /\ now \in 0..MaxTime
    /\ probe \in [coupon : {c \in ProbeCoupons : Len(c.usedBy) <= c.usedCount},
                  subtotal : {3000, 5000}, userId : Users \cup {NULL}, out : {None}]

\* coupon.isValid(subtotal, userId)
EvalIsValid ==
    /\ probe.out = None
    /\ probe' = [probe EXCEPT
           !.out = Some(isValid(probe.coupon, probe.subtotal, probe.userId, now))]
    /\ UNCHANGED <<products, carts, coupons, orders, sessions, inv, fx, failures, now>>

IsValidSpec == IsValidInit /\ [][EvalIsValid]_vars

\* the five checks in the order the claim gives them
FailingChecks(c, subtotal, userId, t) ==
    << ~c.isActive,
       c.expiresAt # None /\ t > c.expiresAt[1],
       c.usageLimit # None /\ c.usedCount >= c.usageLimit[1],
       c.onePerUser /\ userId # NULL /\ userId \in {c.usedBy[k] : k \in 1..Len(c.usedBy)},
       subtotal < c.minPurchase >>

ReasonOf == <<R_INACTIVE, R_EXPIRED, R_LIMIT, R_USED, R_MIN>>

\* C10: isValid returns the reason of the first of the five checks that
\* fails, in the order inactive, expired, usage limit, one per user, minimum
\* purchase, and valid exactly when none fails.
C10_FirstFailingCheck ==
    probe.out # None =>
        LET f == FailingChecks(probe.coupon, probe.subtotal, probe.userId, now)
            failing == {k \in 1..5 : f[k]}
        IN  IF failing = {}
            THEN probe.out[1].valid
            ELSE /\ ~probe.out[1].valid
                 /\ \E k \in failing :
                       /\ \A j \in failing : k <= j
                       /\ probe.out[1].reason = ReasonOf[k]

\* the usage limit and the one-per-user check both fail: the limit is reported
C10_Witness ==
    /\ probe.out # None
    /\ FailingChecks(probe.coupon, probe.subtotal, probe.userId, now)[3]
    /\ FailingChecks(probe.coupon, probe.subtotal, probe.userId, now)[4]
    /\ probe.out[1].reason = R_LIMIT

\* --------------------------------------- recordUsage followed by isValid
\* coupons as createCoupon and generateCoupon store them, not yet used
FreshCoupons ==
    {CouponDoc("fixed", 1000, mp, None, ex, lim, opu) :
        mp \in {0, 5000}, ex \in {None, Some(1)},
        lim \in {None} \cup {Some(k) : k \in 1..MaxUsed}, opu \in BOOLEAN}

UsageInit ==
    /\ Idle
    /\ NoSessions
    /\ now \in 0..MaxTime
    /\ probe \in [coupon : FreshCoupons, subtotal : {3000, 5000},
                  userId : Users \cup {NULL}, out : {None}]

\* await coupon.recordUsage(u) on the coupon as loaded
RecordProbe(u) ==
    /\ probe.out = None
    /\ probe.coupon.usedCount < MaxUsed
    /\ probe' = [probe EXCEPT !.coupon = recordUsage(@, @.usedCount, u)]
    /\ UNCHANGED <<products, carts, coupons, orders, sessions, inv, fx, failures, now>>

UsageNext ==
    \/ \E u \in Users : RecordProbe(u)
    \/ EvalIsValid

UsageSpec == UsageInit /\ [][UsageNext]_vars

\* a live single-use one-per-user coupon after exactly one recordUsage, by u
UsedOnceBy(u) ==
    /\ probe.coupon.usageLimit = Some(1)
    /\ probe.coupon.onePerUser
    /\ probe.coupon.usedBy = <<u>>
    /\ probe.coupon.isActive
    /\ ~(probe.coupon.expiresAt # None /\ now > probe.coupon.expiresAt[1])

\* C11 as stated: after one recordUsage by U on a coupon with usageLimit 1
\* and onePerUser, isValid for U answers "already used" and for any other
\* user "usage limit reached".
C11_AlreadyUsedForSameUser ==
    \A u \in Users :
        (probe.out # None /\ UsedOnceBy(u)) =>
            /\ ~probe.out[1].valid
            /\ probe.out[1].reason = IF probe.userId = u THEN R_USED ELSE R_LIMIT

\* C11 amended: after one recordUsage by U on such a coupon, isValid answers
\* invalid with the usage-limit-reached reason for every user, U included:
\* the limit check comes before the one-per-user check.
C11_LimitReachedForAll ==
    \A u \in Users :
        (probe.out # None /\ UsedOnceBy(u)) =>
            /\ ~probe.out[1].valid
            /\ probe.out[1].reason = R_LIMIT

\* the user who used the coupon asks again
C11_Witness ==
    \E u \in Users :
        /\ probe.out # None /\ UsedOnceBy(u) /\ probe.userId = u
        /\ probe.out[1].reason = R_LIMIT

\* ------------------------------------------- Coupon.calculateDiscount alone
\* coupons the schema admits: discountValue >= 0 (a percentage, or cents for
\* a fixed coupon), maxDiscount any number (cents) or null
DiscountCoupons ==
    {CouponDoc(type, value, 0, cap, None, None, TRUE) :
        type \in {"percentage", "fixed"}, value \in {0, 15, 20, 150, 4000},
        cap \in {None, Some(0 - 500), Some(0), Some(500)}}

ProbeSubtotals == {0, 1, 3000, 3333, 5000}

DiscountInit ==
    /\ Idle
    /\ NoSessions
    /\ now = 0
    /\ probe \in [coupon : DiscountCoupons, subtotal : ProbeSubtotals, out : {None}]

\* coupon.calculateDiscount(subtotal)
EvalDiscount ==
    /\ probe.out = None
    /\ probe' = [probe EXCEPT !.out = Some(calculateDiscount(probe.coupon, probe.subtotal))]
    /\ UNCHANGED <<products, carts, coupons, orders, sessions, inv, fx, failures, now>>

DiscountSpec == DiscountInit /\ [][EvalDiscount]_vars

\* C12: for every coupon the schema admits and every subtotal >= 0,
\* calculateDiscount returns a whole number of cents d with
\* 0 <= d <= subtotal.
C12_DiscountInRange ==
    probe.out # None =>
        /\ probe.out[1] \in Int
        /\ 0 <= probe.out[1]
        /\ probe.out[1] <= probe.subtotal

\* the clamp chain of the claim, in hundredths of a cent
ClampChain(c, subtotal) ==
    LET raw == IF c.discountType = "percentage" THEN subtotal * c.discountValue
               ELSE c.discountValue * 100
        afterCap == IF c.maxDiscount = None THEN raw ELSE Min(raw, c.maxDiscount[1] * 100)
        afterCeiling == Min(afterCap, subtotal * 100)
    IN  afterCeiling

\* C13: calculateDiscount is round2(min(min(raw, cap), subtotal)) with raw =
\* subtotal * value / 100 for a percentage coupon and raw = value for a fixed
\* one, and no cap when maxDiscount is null.
C13_ClampThenRound ==
    probe.out # None =>
        probe.out[1] = Round2(ClampChain(probe.coupon, probe.subtotal))

\* the cap binds below the subtotal, and a result that rounding moved
C13_Witness ==
    /\ probe.out # None
    /\ \/ /\ probe.coupon.maxDiscount = Some(500)
          /\ probe.coupon.discountType = "percentage"
          /\ probe.subtotal = 5000
          /\ probe.out[1] = 500
       \/ /\ probe.coupon.maxDiscount = None
          /\ probe.coupon.discountValue = 15
          /\ probe.coupon.discountType = "percentage"
          /\ probe.subtotal = 3333
          /\ probe.out[1] = 500

\* ------------------------------------------------------- the cart alone
\* coupons an admin can create: percentage with and without a cap, a
\* percentage above 100, fixed amounts below and above any cart subtotal
CartCoupons ==
    {CouponDoc("percentage", 20, 0, None, None, None, TRUE),
     CouponDoc("percentage", 20, 0, Some(500), None, None, TRUE),
     CouponDoc("percentage", 150, 0, None, None, None, TRUE),
     CouponDoc("fixed", 1000, 0, None, None, None, TRUE),
     CouponDoc("fixed", 90000, 0, None, None, None, TRUE)}

\* a catalogue with any stock up to InitStock, one coupon, no cart yet
CartInit ==
    /\ \E st \in [Products -> 0..InitStock] :
          products = [p \in Products |->
                        [price |-> PriceOf[p], discountedPrice |-> None, stock |-> st[p],
                         isActive |-> TRUE, sizes |-> {}, colors |-> {},
                         negotiationEnabled |-> FALSE, hiddenBottomPrice |-> None]]
    /\ coupons \in [Codes -> CartCoupons]
    /\ orders = <<>>
    /\ inv = <<>>
    /\ failures = 0
    /\ NoSessions
    /\ now = 0
    /\ probe = <<>>

\* the request bodies of syncCart: up to two incoming lines
IncomingLines(PS) ==
    [productId : PS, quantity : 0..MaxQty, size : {NULL}, color : {NULL}]

CartNext(US, PS) ==
    \/ \E u \in US, p \in PS, q \in 1..MaxQty : addToCart(u, p, q, NULL, NULL)
    \/ \E u \in US, k \in 1..2, q \in 0..(MaxQty + 1) : updateCartItem(u, k, q)
    \/ \E u \in US, k \in 1..2 : removeFromCart(u, k)
    \/ \E u \in US : clearCart(u)
    \/ \E u \in US, incoming \in AllSeqs(IncomingLines(PS), 2) : syncCart(u, incoming)
    \/ \E u \in US, code \in Codes : applyCouponToCart(u, code)
    \/ \E u \in US : removeCouponFromCart(u)

CartSpec == CartInit /\ [][CartNext(Users, Products)]_vars

\* C14: for every cart reachable through add, update, remove, sync, apply
\* coupon, remove coupon and clear, total = max(0, subtotal - discount),
\* 0 <= total <= subtotal, and a fixed coupon of at least the subtotal gives
\* total 0.
C14_TotalFloored ==
    \A u \in DOMAIN carts :
        LET sub == Subtotal(carts[u].items)
            total == CartTotal(carts[u])
        IN  /\ total = Max(0, sub - CartDiscount(carts[u]))
            /\ total >= 0
            /\ total <= sub
            /\ (carts[u].appliedCoupon.discountType = "fixed"
                  /\ carts[u].appliedCoupon.discountValue >= sub) => total = 0

\* a cart with lines and a percentage above 100 applied: the floor acts
C14_Witness ==
    \E u \in DOMAIN carts :
        /\ carts[u].items # <<>>
        /\ carts[u].appliedCoupon.discountType = "percentage"
        /\ CartDiscount(carts[u]) > CartSubtotal(carts[u])
        /\ CartTotal(carts[u]) = 0

\* C15: the discount of a cart with a coupon applied is calculateDiscount of
\* that coupon on the cart's subtotal.
C15_CartDiscountIsCouponDiscount ==
    \A u \in DOMAIN carts :
        LET code == carts[u].appliedCoupon.code
        IN  (code # NULL /\ code \in DOMAIN coupons) =>
                CartDiscount(carts[u]) = calculateDiscount(coupons[code], CartSubtotal(carts[u]))

\* ---------------------------------------------------------- negotiation
NegoPrices == {5000, 10000}
NegoFloors == {None, Some(0), Some(2100), Some(7100), Some(8500), Some(12000)}
NegoValues == {0, 15, 20, 30, 1500, 2000, 8000}
DiscountTypes == {"percentage", "fixed"}

\* p1 is any product of the negotiation catalogue, p2 is not negotiable; no
\* coupon exists yet
NegotiateInit ==
    /\ \E price \in NegoPrices, floor \in NegoFloors, enabled \in BOOLEAN :
          products = [p \in Products |->
                        [price |-> IF p = "p1" THEN price ELSE PriceOf[p],
                         discountedPrice |-> None, stock |-> InitStock,
                         isActive |-> TRUE, sizes |-> {}, colors |-> {},
                         negotiationEnabled |-> IF p = "p1" THEN enabled ELSE FALSE,
                         hiddenBottomPrice |-> IF p = "p1" THEN floor ELSE None]]
    /\ coupons = <<>>
    /\ orders = <<>>
    /\ inv = <<>>
    /\ failures = 0
    /\ NoSessions
    /\ now = 0
    /\ probe = <<>>

NegotiateNext ==
    \/ \E p \in Products, type \in DiscountTypes, value \in NegoValues :
          ValidateProbe(p, type, value)
    \/ \E p \in Products, type \in DiscountTypes, value \in NegoValues, code \in Codes :
          generateCoupon(p, type, value, code)

NegotiateSpec == NegotiateInit /\ [][NegotiateNext]_vars

\* the request of probe was made on a negotiable product with a floor
Negotiable(product) ==
    /\ product.negotiationEnabled
    /\ product.hiddenBottomPrice # None
    /\ product.hiddenBottomPrice[1] > 0

\* the discount a request asks for, in hundredths of a cent
AskedAmountH(product, type, value) ==
    IF type = "percentage" THEN EffectivePrice(product) * value ELSE value * 100

\* C16: on a negotiation-enabled product with a positive floor price,
\* validateDiscount allows exactly when currentPrice - discountAmount >=
\* floorPrice, and a rejection for that reason reports maxDiscount =
\* currentPrice - floorPrice and maxPercentage = that amount as a percentage
\* of currentPrice floored to one decimal.
C16_FloorGate ==
    (probe # <<>> /\ Negotiable(products[probe.productId])) =>
        LET product == products[probe.productId]
            price == EffectivePrice(product)
            floor == product.hiddenBottomPrice[1]
            keeps == price * 100 - AskedAmountH(product, probe.discountType,
                                                probe.discountValue) >= floor * 100
            verdict == probe.out[1]
        IN  /\ verdict.allowed = keeps
            /\ ~keeps =>
                  /\ verdict.maxDiscount = Some(price - floor)
                  /\ verdict.maxPercentage = Some(((price - floor) * 1000) \div price)

\* the request is rejected when negotiation is disabled, no floor price is
\* configured or the effective price falls below the floor
Rejects(product, type, value) ==
    \/ ~Negotiable(product)
    \/ EffectivePrice(product) * 100 - AskedAmountH(product, type, value)
          < product.hiddenBottomPrice[1] * 100

\* C17: a call of validateDiscount leaves the coupons as they are, and the
\* coupons change only by a generateCoupon request that validation does not
\* reject, which adds the one negotiated coupon; a rejected request leaves
\* the set of coupons unchanged.
C17_ValidationGate ==
    [][/\ probe'.op = "validateDiscount" => coupons' = coupons
       /\ Rejects(products[probe'.productId], probe'.discountType, probe'.discountValue)
             => coupons' = coupons
       /\ coupons' # coupons =>
             /\ probe'.op = "generateCoupon"
             /\ \E code \in Codes :
                   /\ code \notin DOMAIN coupons
                   /\ coupons' = (code :> NegotiationCoupon(probe'.discountType,
                                      probe'.discountValue, now)) @@ coupons]_vars

\* a generateCoupon request was rejected and no coupon exists
C17_Witness ==
    /\ probe # <<>>
    /\ probe.op = "generateCoupon"
    /\ ~probe.out[1].allowed
    /\ probe.out[1].reason = N_BELOW_FLOOR
    /\ coupons = <<>>

\* ------------------------------------------------- checkout session creation
\* the catalogue is maintained outside these handlers: an order of another
\* shopper takes one unit of a product
Sold(p) ==
    /\ products[p].stock >= 1
    /\ products' = [products EXCEPT ![p].stock = @ - 1]
    /\ UNCHANGED <<carts, coupons, orders, sessions, inv, fx, failures, now, probe>>

\* the catalogue withdraws a product from sale
Withdraw(p) ==
    /\ products[p].isActive
    /\ products' = [products EXCEPT ![p].isActive = FALSE]
    /\ UNCHANGED <<carts, coupons, orders, sessions, inv, fx, failures, now, probe>>

\* the requests of shopper u1 and the changes of the catalogue up to the
\* creation of the first checkout session
CheckoutNext ==
    \/ /\ sessions = <<>>
       /\ \E p \in Products, q \in 1..(MaxQty + 1) : addToCart("u1", p, q, NULL, NULL)
    \/ /\ sessions = <<>>
       /\ \E k \in 1..2, q \in 0..(MaxQty + 1) : updateCartItem("u1", k, q)
    \/ /\ sessions = <<>>
       /\ \E code \in Codes : applyCouponToCart("u1", code)
    \/ /\ sessions = <<>>
       /\ \E p \in Products : Sold(p)
    \/ /\ sessions = <<>>
       /\ \E p \in Products : Withdraw(p)
    \/ /\ sessions = <<>>
       /\ createCheckoutFromCart("u1")
    \/ /\ sessions = <<>>
       /\ \E p \in Products, q \in 1..(MaxQty + 1) :
             createSingleProductCheckout("u1", p, q, NULL, NULL)

CheckoutSpec == Init /\ [][CheckoutNext]_vars

\* the product of a cart line is on sale and has stock for the line
LineOk(line) ==
    /\ products[line.productId].isActive
    /\ line.quantity <= products[line.productId].stock

\* C18: createCheckoutFromCart creates a session only if every line of the
\* cart references an active product with stock >= the line's quantity at
\* that moment; if any single line fails, the request fails and no session
\* is created.
C18_AllLinesOrNoSession ==
    \A u \in Users :
        /\ (ENABLED createCheckoutFromCart(u)) =>
              /\ u \in DOMAIN carts
              /\ \A k \in 1..Len(carts[u].items) : LineOk(carts[u].items[k])
        /\ (u \in DOMAIN carts /\ \E k \in 1..Len(carts[u].items) : ~LineOk(carts[u].items[k]))
              => createCheckoutFromCartResponse(u).status = 400

\* a cart of two lines of which only the second fails the check
C18_Witness ==
    /\ "u1" \in DOMAIN carts
    /\ Len(carts["u1"].items) = 2
    /\ LineOk(carts["u1"].items[1])
    /\ ~LineOk(carts["u1"].items[2])
    /\ sessions = <<>>
    /\ ~ENABLED createCheckoutFromCart("u1")

\* C19: a step that creates a checkout session, from the cart or for a
\* single product, leaves the carts, the products (their stock), the coupons
\* and the orders unchanged.
C19_SessionCreationIsDryRun ==
    [][Len(sessions') # Len(sessions) => UNCHANGED <<carts, products, coupons, orders>>]_vars

\* a session created from a cart whose lines are still in the cart and whose
\* products still have their stock
C19_Witness ==
    /\ Len(sessions) = 1
    /\ sessions[1].cartId = "u1"
    /\ carts["u1"].items = ParseItems(sessions[1])
    /\ \A k \in 1..Len(sessions[1].itemsJson) : LineOk(ParseItems(sessions[1])[k])

\* the quantity of the line of product p (no size, no color) in u's cart
InCart(u, p) ==
    IF u \notin DOMAIN carts THEN 0
    ELSE IF FindLine(carts[u].items, p, NULL, NULL) = 0 THEN 0
    ELSE carts[u].items[FindLine(carts[u].items, p, NULL, NULL)].quantity

SettledAmounts == {0, 2400, 3000, 3500}

\* one checkout session of the cart holding one p1, for which the provider
\* settles any of the amounts above
SettleInit ==
    /\ Idle
    /\ now = 0
    /\ probe = <<>>
    /\ \E withCoupon \in BOOLEAN, amount \in SettledAmounts :
          LET line == [productId |-> "p1", quantity |-> 1, size |-> NULL, color |-> NULL,
                       price |-> PriceOf["p1"]]
              snapshot == [code |-> "DEAL", discountType |-> "percentage",
                           discountValue |-> 20]
              cart == [items |-> <<line>>,
                       appliedCoupon |-> IF withCoupon THEN snapshot ELSE NoCoupon]
          IN  /\ carts = ("u1" :> cart)
              /\ sessions = <<[SessionOf("u1", cart) EXCEPT !.amount_total = amount]>>
              /\ fx = <<NoEffects>>

SettleSpec == SettleInit /\ [][PipelineNext]_vars

\* C22: every persisted order has total = the settled amount of its
\* session, subtotal = the sum of price * quantity over its items and
\* discount = max(0, subtotal - total); so discount >= 0, and subtotal -
\* discount = total whenever the settled amount does not exceed the subtotal.
C22_OrderTotals ==
    \A k \in 1..Len(orders) :
        LET order == orders[k]
            sum == SumSeq([j \in 1..Len(order.items) |->
                             order.items[j].price * order.items[j].quantity])
        IN  /\ order.total = sessions[order.stripeSessionId].amount_total
            /\ order.subtotal = sum
            /\ order.discount = Max(0, sum - order.total)
            /\ order.discount >= 0
            /\ order.total <= sum => sum - order.discount = order.total

\* an order whose settled amount exceeds its subtotal: the discount is 0
C22_Witness ==
    \E k \in 1..Len(orders) :
        /\ orders[k].total > orders[k].subtotal
        /\ orders[k].discount = 0

\* C27: for every session for which a signature-valid
\* checkout.session.completed event is delivered, an order with that session
\* id eventually exists, and never more than one; and a session with no such
\* event has no order.
C27_OrderEventuallyExists ==
    /\ \A sid \in 1..MaxSessions :
          (sid <= Len(fx) /\ fx[sid].recv >= 1)
              ~> (sid <= Len(fx) /\ OrdersFor(sid) = 1)
    /\ [](\A sid \in Sids : /\ OrdersFor(sid) <= 1
                             /\ fx[sid].recv = 0 => OrdersFor(sid) = 0)

\* C30: recording coupon usage is atomic: no increment is lost, so that
\* with no recordUsage in progress the usedCount of a coupon is the number
\* of its usage records, which is the number of recordings made for it.
C30_UsageAtomic ==
    (\A i \in 1..Len(inv) : inv[i].pc # "recordUsage") =>
        \A c \in DOMAIN coupons :
            /\ coupons[c].usedCount = Len(coupons[c].usedBy)
            /\ coupons[c].usedCount =
                  SumSeq([sid \in 1..Len(sessions) |->
                            IF sessions[sid].couponCode = c THEN fx[sid].recorded ELSE 0])

\* ------------------------------------------- the cart after the session
\* the catalogue puts a product on sale, or ends the sale
Reprice(p) ==
    /\ products' = [products EXCEPT ![p].discountedPrice =
                      IF @ = None THEN Some(PriceOf[p] - 500) ELSE None]
    /\ UNCHANGED <<carts, coupons, orders, sessions, inv, fx, failures, now, probe>>

\* shopper u1 fills the cart and opens one checkout session; the cart and
\* the price of p1 go on changing while the session is paid and fulfilled
FulfilNext ==
    \/ \E p \in Products, q \in 1..MaxQty : addToCart("u1", p, q, NULL, NULL)
    \/ \E k \in 1..2 : removeFromCart("u1", k)
    \/ \E code \in Codes : applyCouponToCart("u1", code)
    \/ Reprice("p1")
    \/ /\ sessions = <<>>
       /\ createCheckoutFromCart("u1")
    \/ Receive(1, TRUE, "checkout.session.completed")
    \/ \E i \in 1..Len(inv) : SaveOrder(i)
    \/ \E i \in 1..Len(inv) : DecStock(i)
    \/ \E i \in 1..Len(inv) : FindCoupon(i)
    \/ \E i \in 1..Len(inv) : RecordUsage(i)
    \/ \E i \in 1..Len(inv) : ClearCart(i)
    \/ \E i \in 1..Len(inv) : DbError(i)

FulfilSpec == Init /\ [][FulfilNext]_vars

\* C21: the session created from a cart carries exactly the lines
\* (product, quantity, size, color, price snapshot) the cart holds at that
\* moment, and the order of a session has exactly the lines of its session,
\* whatever happened to the cart or to the live prices in between.
C21_OrderLinesAsAtCreation ==
    /\ [][Len(sessions') = Len(sessions) + 1 =>
            LET new == sessions'[Len(sessions')]
            IN  new.cartId # NULL => ParseItems(new) = carts[new.cartId].items]_vars
    /\ [](\A k \in 1..Len(orders) :
            orders[k].items = ParseItems(sessions[orders[k].stripeSessionId]))
    /\ [][sessions' # sessions => Len(sessions') = Len(sessions) + 1 /\
            \A sid \in 1..Len(sessions) : sessions'[sid] = sessions[sid]]_vars

\* the order exists while the cart it came from holds other lines and the
\* live price of an ordered product is no longer the price on the order
C21_Witness ==
    \E k \in 1..Len(orders) :
        LET session == sessions[orders[k].stripeSessionId]
        IN  /\ session.cartId \in DOMAIN carts
            /\ carts[session.cartId].items # <<>>
            /\ carts[session.cartId].items # orders[k].items
            /\ \E j \in 1..Len(orders[k].items) :
                  orders[k].items[j].price #
                      EffectivePrice(products[orders[k].items[j].productId])

\* C23: the step that completes the fulfillment of a cart-based session
\* leaves the cart of the session's cartId with no items and with the reset
\* coupon snapshot, whatever the cart holds by then; and a fulfillment that
\* ended without a failed step has made that step.
C23_CartCleared ==
    /\ [][\A sid \in 1..Len(fx) :
            (sid <= Len(fx') /\ fx'[sid].cleared = fx[sid].cleared + 1) =>
                /\ sessions[sid].cartId \in DOMAIN carts'
                /\ carts'[sessions[sid].cartId].items = <<>>
                /\ carts'[sessions[sid].cartId].appliedCoupon =
                      [code |-> NULL, discountType |-> NULL, discountValue |-> 0]]_vars
    /\ [](\A sid \in 1..Len(fx) :
            (/\ OrdersFor(sid) = 1
             /\ fx[sid].errors = {}
             /\ sessions[sid].cartId # NULL
             /\ \A i \in 1..Len(inv) : inv[i].session # sid) => fx[sid].cleared = 1)

\* the cart is empty at the end of a fulfillment with no failed step, for
\* a session that carried a coupon
C23_Witness ==
    \E sid \in 1..Len(fx) :
        /\ fx[sid].cleared = 1
        /\ fx[sid].errors = {}
        /\ sessions[sid].couponCode # NULL
        /\ carts[sessions[sid].cartId] = EmptyCart
        /\ \A i \in 1..Len(inv) : inv[i].session # sid

\* ------------------------------------------------- requested quantities
\* the quantities a request can name: negative, zero, up to over the stock
Quantities == (0 - 1)..(MaxQty + 1)

QuantityNext ==
    \/ \E u \in Users, p \in Products, q \in Quantities : addToCart(u, p, q, NULL, NULL)
    \/ \E u \in Users, k \in 1..2, q \in Quantities : updateCartItem(u, k, q)
    \/ \E u \in Users, k \in 1..2 : removeFromCart(u, k)
    \/ \E u \in Users : clearCart(u)
    \/ \E u \in Users,
          incoming \in AllSeqs([productId : Products, quantity : Quantities,
                                size : {NULL}, color : {NULL}], 2) : syncCart(u, incoming)

\* carts over a catalogue with any stock from 0 to InitStock
QuantitySpec == CartInit /\ [][QuantityNext]_vars

\* C24: in every persisted cart reachable by addToCart, updateCartItem,
\* removeFromCart, syncCart and clearCart, with any requested quantity
\* (negative, 0, above the stock) and products with stock 0, every line has
\* quantity >= 1.
C24_QuantityAtLeastOne ==
    \A u \in DOMAIN carts :
        \A k \in 1..Len(carts[u].items) : carts[u].items[k].quantity >= 1

\* a cart with a line, a product out of stock that is not in it, and the
\* requests that would write a line of quantity 0 or -1 change nothing
C24_Witness ==
    \E u \in DOMAIN carts, p \in Products :
        /\ carts[u].items # <<>>
        /\ products[p].stock = 0
        /\ FindLine(carts[u].items, p, NULL, NULL) = 0
        /\ ~ENABLED (/\ syncCart(u, <<[productId |-> p, quantity |-> 0,
                                       size |-> NULL, color |-> NULL]>>)
                     /\ carts' # carts)
        /\ ~ENABLED (/\ addToCart(u, p, 0 - 1, NULL, NULL)
                     /\ carts' # carts)

\* ------------------------------------------------- the price snapshot
\* every handler that writes a cart, except syncCart, while the live
\* prices change
PriceNext ==
    \/ \E u \in Users, p \in Products, q \in Quantities : addToCart(u, p, q, NULL, NULL)
    \/ \E u \in Users, k \in 1..2, q \in Quantities : updateCartItem(u, k, q)
    \/ \E u \in Users, k \in 1..2 : removeFromCart(u, k)
    \/ \E u \in Users : clearCart(u)
    \/ \E u \in Users, code \in Codes : applyCouponToCart(u, code)
    \/ \E u \in Users : removeCouponFromCart(u)
    \/ \E p \in Products : Reprice(p)

PriceSpec == Init /\ [][PriceNext]_vars

\* the line of u's cart for a product, size and color has the same price
\* after the step, if it is still there
PriceKept(u) ==
    \A k \in 1..Len(carts[u].items) :
        LET line == carts[u].items[k]
            j == FindLine(carts'[u].items, line.productId, line.size, line.color)
        IN  j > 0 => carts'[u].items[j].price = line.price

\* C25: the price of a line is the effective price of the product when the
\* line is inserted, and no step of addToCart (on an existing line or not),
\* updateCartItem, removeFromCart, clearCart, apply or remove coupon, nor a
\* change of the live product price, changes the price of a line that stays
\* in the cart.
C25_PriceSnapshotKept ==
    [][\A u \in DOMAIN carts :
          /\ u \in DOMAIN carts'
          /\ PriceKept(u)
          /\ \A j \in 1..Len(carts'[u].items) :
                LET line == carts'[u].items[j]
                IN  FindLine(carts[u].items, line.productId, line.size, line.color) = 0
                        => line.price = EffectivePrice(products[line.productId])]_vars

\* a line under an applied coupon whose price is no longer the live price
\* of its product, and on which an addToCart is accepted
C25_Witness ==
    \E u \in DOMAIN carts :
        /\ carts[u].appliedCoupon.code # NULL
        /\ \E k \in 1..Len(carts[u].items) :
              LET line == carts[u].items[k]
              IN  /\ line.price # EffectivePrice(products[line.productId])
                  /\ addToCartResponse(u, line.productId, 0, NULL, NULL).status = 200

\* ------------------------------------------------- coupons on the cart
\* the coupon behind the code: valid for good, valid until time 1, inactive,
\* with its one use taken by another shopper, with a minimum purchase above
\* the price of p1, already used by shopper u1
ApplyCoupons ==
    {CouponDoc("percentage", 20, 0, None, None, None, FALSE),
     CouponDoc("percentage", 20, 0, None, Some(1), None, FALSE),
     [CouponDoc("percentage", 20, 0, None, None, None, FALSE) EXCEPT !.isActive = FALSE],
     [CouponDoc("fixed", 1000, 0, None, None, Some(1), FALSE)
        EXCEPT !.usedCount = 1, !.usedBy = <<"u2">>],
     CouponDoc("fixed", 1000, 4000, None, None, None, FALSE),
     [CouponDoc("fixed", 1000, 0, None, None, None, TRUE)
        EXCEPT !.usedCount = 1, !.usedBy = <<"u1">>]}

\* the codes a request can name: the code of the collection, in upper and
\* in lower case, and a code no coupon has
RequestCodes == Codes \cup {"deal", "NOPE"}

CouponInit ==
    /\ products = [p \in Products |->
                    [price |-> PriceOf[p], discountedPrice |-> None, stock |-> InitStock,
                     isActive |-> TRUE, sizes |-> {}, colors |-> {},
                     negotiationEnabled |-> FALSE, hiddenBottomPrice |-> None]]
    /\ coupons \in [Codes -> ApplyCoupons]
    /\ orders = <<>>
    /\ inv = <<>>
    /\ failures = 0
    /\ NoSessions
    /\ now = 0
    /\ probe = <<>>

\* time passes
Tick ==
    /\ now < MaxTime
    /\ now' = now + 1
    /\ UNCHANGED <<products, carts, coupons, orders, sessions, inv, fx, failures, probe>>

CouponNext ==
    \/ \E p \in Products, q \in 1..MaxQty : addToCart("u1", p, q, NULL, NULL)
    \/ \E k \in 1..2 : removeFromCart("u1", k)
    \/ \E code \in RequestCodes : applyCouponToCart("u1", code)
    \/ removeCouponFromCart("u1")
    \/ \E code \in Codes : deactivateCoupon(code)
    \/ Tick
    \/ /\ sessions = <<>>
       /\ createCheckoutFromCart("u1")

CouponSpec == CouponInit /\ [][CouponNext]_vars

\* C26: createCheckoutFromCart attaches the coupon code of the cart to the
\* session only if the coupon is at that moment active, not expired, below
\* its usage limit and not already used by the user under onePerUser.
C26_RevalidatedAtCheckout ==
    [][Len(sessions') = Len(sessions) + 1 =>
          LET new == sessions'[Len(sessions')]
          IN  (new.cartId # NULL /\ new.couponCode # NULL) =>
                  isValid(coupons[new.couponCode], Subtotal(ParseItems(new)),
                          new.userId, now).reason
                      \notin {R_INACTIVE, R_EXPIRED, R_LIMIT, R_USED}]_vars

\* the snapshot applyCouponToCart writes for a code
SnapshotOf(code) ==
    [code |-> toUpperCase(code),
     discountType |-> coupons[toUpperCase(code)].discountType,
     discountValue |-> coupons[toUpperCase(code)].discountValue]

\* the coupon of the code exists, the cart of u has lines, isValid accepts
Applicable(u, code) ==
    /\ toUpperCase(code) \in DOMAIN coupons
    /\ u \in DOMAIN carts
    /\ carts[u].items # <<>>
    /\ isValid(coupons[toUpperCase(code)], Subtotal(carts[u].items), u, now).valid

\* C28: applyCouponToCart writes the snapshot (code, type, value) of the
\* coupon onto the cart only when the coupon exists, the cart is non-empty
\* and isValid accepts the cart subtotal and user, and then it changes
\* nothing else; in every other case the cart is unchanged and the answer
\* is the reason of that case: 404 Invalid coupon code, 400 Cart is empty,
\* or 400 with the reason isValid gave.
C28_ApplyOnlyWhenValid ==
    /\ [][\A code \in RequestCodes :
            applyCouponToCart("u1", code) =>
                /\ Applicable("u1", code)
                /\ carts' = [carts EXCEPT !["u1"].appliedCoupon = SnapshotOf(code)]]_vars
    /\ [](\A code \in RequestCodes :
            LET r == applyCouponToCartResponse("u1", code)
            IN  /\ Applicable("u1", code) <=> r.status = 200
                /\ Applicable("u1", code) =>
                      ENABLED (/\ applyCouponToCart("u1", code)
                               /\ carts'["u1"].appliedCoupon = SnapshotOf(code))
                /\ ~Applicable("u1", code) =>
                      /\ ~ENABLED (applyCouponToCart("u1", code) /\ carts' # carts)
                      /\ r.status \in {400, 404}
                      /\ r.status = 404 <=> toUpperCase(code) \notin DOMAIN coupons
                      /\ r.message =
                            IF toUpperCase(code) \notin DOMAIN coupons THEN M_INVALID_CODE
                            ELSE IF "u1" \notin DOMAIN carts THEN M_CART_EMPTY
                            ELSE IF carts["u1"].items = <<>> THEN M_CART_EMPTY
                            ELSE isValid(coupons[toUpperCase(code)],
                                         Subtotal(carts["u1"].items), "u1", now).reason)

\* a cart that carries the snapshot of a coupon that has expired since:
\* applying the same code again is refused with the reason, the cart stays
C28_Witness ==
    /\ "u1" \in DOMAIN carts
    /\ carts["u1"].items # <<>>
    /\ carts["u1"].appliedCoupon = SnapshotOf("DEAL")
    /\ applyCouponToCartResponse("u1", "deal") = Resp(400, R_EXPIRED, None)

\* --------------------------------------------- concurrent cart requests
\* The carts collection as documents, and the requests in progress, each
\* between its Cart.findOne and its write; both are kept in probe:
\*   docs  the documents of the collection, [userId, items]
\*   reqs  the requests in progress, [op, userId, pc, found, add]
\*   begun the number of requests received, dups the number of writes the
\*   unique index on userId rejected
RaceOps == {"getCart", "addToCart", "syncCart"}

\* (mutant) the collection has no unique index on userId
UserIdFree_NoIndex(docs, u) == TRUE

\* the unique index on userId admits a new document for u
UserIdFree(docs, u) == \A k \in 1..Len(docs) : docs[k].userId # u

RaceInit ==
    /\ Idle
    /\ NoSessions
    /\ now = 0
    /\ probe = [docs |-> <<>>, reqs |-> <<>>, begun |-> 0, dups |-> 0]

\* a request of user u arrives; an addToCart or syncCart names product p
BeginRequest(op, u, p) ==
    /\ probe.begun < MaxRequests
    /\ probe' = [probe EXCEPT
           !.begun = @ + 1,
           !.reqs = Append(@, [op |-> op, userId |-> u, pc |-> "findOne",
                               found |-> FALSE, add |-> IF op = "getCart" THEN {} ELSE {p}])]
    /\ UNCHANGED <<products, carts, coupons, orders, sessions, inv, fx, failures, now>>

\* await Cart.findOne({ userId }); getCart answers at once with a cart found
CartFindOne(i) ==
    /\ probe.reqs[i].pc = "findOne"
    /\ LET found == ~UserIdFree(probe.docs, probe.reqs[i].userId)
       IN  probe' = IF found /\ probe.reqs[i].op = "getCart"
                    THEN [probe EXCEPT !.reqs = Remove(@, i)]
                    ELSE [probe EXCEPT !.reqs[i].pc = "write", !.reqs[i].found = found]
    /\ UNCHANGED <<products, carts, coupons, orders, sessions, inv, fx, failures, now>>

\* await Cart.create(...) of getCart, await cart.save() of addToCart and
\* syncCart: an update of the document found, or the insert of a new one,
\* which the unique index rejects if the user has a cart by now
CartWrite(i) ==
    /\ probe.reqs[i].pc = "write"
    /\ LET req == probe.reqs[i]
           done == [probe EXCEPT !.reqs = Remove(@, i)]
       IN  probe' =
             IF req.found
             THEN [done EXCEPT !.docs = [k \in 1..Len(probe.docs) |->
                      IF probe.docs[k].userId = req.userId
                      THEN [probe.docs[k] EXCEPT !.items = @ \cup req.add]
                      ELSE probe.docs[k]]]
             ELSE IF UserIdFree(probe.docs, req.userId)
             THEN [done EXCEPT !.docs = Append(@, [userId |-> req.userId,
                                                   items |-> req.add])]
             ELSE [done EXCEPT !.dups = @ + 1]
    /\ UNCHANGED <<products, carts, coupons, orders, sessions, inv, fx, failures, now>>

RaceNext ==
    \/ \E op \in RaceOps, u \in Users, p \in Products : BeginRequest(op, u, p)
    \/ \E i \in 1..Len(probe.reqs) : CartFindOne(i)
    \/ \E i \in 1..Len(probe.reqs) : CartWrite(i)

RaceSpec == RaceInit /\ [][RaceNext]_vars

\* C29: under any interleaving of getCart, addToCart and syncCart requests
\* of the same user, two first requests that both found no cart included,
\* the collection holds at most one cart of that user.
C29_OneCartPerUser ==
    \A u \in Users :
        Cardinality({k \in 1..Len(probe.docs) : probe.docs[k].userId = u}) <= 1

\* two first requests of u1 both found no cart; one inserted it and the
\* insert of the other was rejected
C29_Witness ==
    /\ probe.dups >= 1
    /\ Cardinality({k \in 1..Len(probe.docs) : probe.docs[k].userId = "u1"}) = 1
    /\ \A k \in 1..Len(probe.docs) : probe.docs[k].userId = "u1"

\* C35: for a coupon with onePerUser = true no user appears more than
\* once in its usage records, also when the same user completes two
\* checkout sessions that both carry the coupon code.
C35_OneUsagePerUser ==
    \A c \in DOMAIN coupons :
        coupons[c].onePerUser =>
            \A j, k \in 1..Len(coupons[c].usedBy) :
                coupons[c].usedBy[j] = coupons[c].usedBy[k] => j = k

\* ------------------------------------------- fulfillments side by side
\* sessions of the same cart, their events delivered and handled in any
\* interleaving
PipelineSpec == PipelineInit /\ [][PipelineNext]_vars

\* the quantity of product p over the persisted orders
QtyOrdered(p) ==
    SumSeq([k \in 1..Len(orders) |->
              SumSeq([j \in 1..Len(orders[k].items) |->
                        IF orders[k].items[j].productId = p
                        THEN orders[k].items[j].quantity ELSE 0])])

\* C32: under any interleaving of fulfillments of different sessions of
\* the same product no stock decrement is lost: when all of them have
\* completed and no step failed, the stock of every product is its initial
\* stock less the quantity of the product over all persisted orders.
C32_NoLostDecrement ==
    (inv = <<>> /\ \A sid \in Sids : fx[sid].errors = {}) =>
        \A p \in Products : products[p].stock = InitStock - QtyOrdered(p)

\* two sessions of p1 fulfilled with no failed step
C32_Witness ==
    /\ inv = <<>>
    /\ \A sid \in Sids : fx[sid].errors = {}
    /\ Len(orders) >= 2
    /\ \E j, k \in 1..Len(orders) : orders[j].stripeSessionId # orders[k].stripeSessionId
    /\ products["p1"].stock = InitStock - QtyOrdered("p1")
    /\ QtyOrdered("p1") >= 2

\* C33: the effects of one confirmed event come in a fixed order: stock is
\* decremented for a session only once its order is persisted, coupon
\* usage is recorded only after all stock decrements of the session, the
\* cart is cleared last; and while no order of the session is persisted,
\* none of the three other effects has been applied.
C33_EffectsInOrder ==
    /\ [][\A sid \in 1..Len(fx) :
            /\ fx'[sid].decs > fx[sid].decs => OrdersFor(sid) = 1
            /\ fx'[sid].recorded > fx[sid].recorded => fx[sid].decs = Lines(sid)
            /\ fx'[sid].cleared > fx[sid].cleared =>
                  /\ fx[sid].decs = Lines(sid)
                  /\ HasCoupon(sid) => fx[sid].recorded = 1]_vars
    /\ [](\A sid \in Sids :
            OrdersFor(sid) = 0 =>
                fx[sid].decs = 0 /\ fx[sid].recorded = 0 /\ fx[sid].cleared = 0)

\* a session with a coupon whose order, stock decrement, usage record and
\* cart clearing have all been made, next to a session whose order could
\* not be persisted
C33_Witness ==
    /\ \E sid \in Sids :
          /\ HasCoupon(sid)
          /\ OrdersFor(sid) = 1
          /\ fx[sid].decs = Lines(sid) /\ fx[sid].recorded = 1 /\ fx[sid].cleared = 1
    /\ \E sid \in Sids :
          "save" \in fx[sid].errors /\ OrdersFor(sid) = 0 /\ fx[sid].acked >= 1

\* ------------------------------------------------ usage recorded side by side
\* The webhook handlers that have loaded the coupon and not yet saved it
\* are kept in probe: calls holds, per handler, the user and the usedCount
\* its document was loaded with; begun counts the handlers started.
UsageRaceInit ==
    /\ Idle
    /\ NoSessions
    /\ now = 0
    /\ probe = [calls |-> <<>>, begun |-> 0]

\* const coupon = await Coupon.findOne({ code: couponCode })
CouponFindOne(code, u) ==
    /\ probe.begun < MaxRequests
    /\ probe' = [calls |-> Append(probe.calls,
                               [code |-> code, userId |-> u,
                                readCount |-> coupons[code].usedCount]),
                 begun |-> probe.begun + 1]
    /\ UNCHANGED <<products, carts, coupons, orders, sessions, inv, fx, failures, now>>

\* await coupon.recordUsage(userId)
CouponSave(i) ==
    /\ coupons' = [coupons EXCEPT ![probe.calls[i].code] =
                     recordUsage(@, probe.calls[i].readCount, probe.calls[i].userId)]
    /\ probe' = [probe EXCEPT !.calls = Remove(@, i)]
    /\ UNCHANGED <<products, carts, orders, sessions, inv, fx, failures, now>>

UsageRaceNext ==
    \/ \E code \in Codes, u \in Users : CouponFindOne(code, u)
    \/ \E i \in 1..Len(probe.calls) : CouponSave(i)
    \/ \E code \in Codes : deactivateCoupon(code)
    \/ \E p \in Products : addToCart("u1", p, 1, NULL, NULL)
    \/ \E code \in Codes : applyCouponToCart("u1", code)
    \/ removeCouponFromCart("u1")

UsageRaceSpec == UsageRaceInit /\ [][UsageRaceNext]_vars

\* C34: the usedCount of a coupon never decreases and its usage records
\* are never removed.
C34_UsageOnlyGrows ==
    [][\A c \in DOMAIN coupons :
          /\ coupons'[c].usedCount >= coupons[c].usedCount
          /\ Len(coupons'[c].usedBy) >= Len(coupons[c].usedBy)
          /\ \A k \in 1..Len(coupons[c].usedBy) :
                coupons'[c].usedBy[k] = coupons[c].usedBy[k]]_vars

\* -------------------------------------------- cart requests side by side
\* addToCart requests on a line that is already in the cart, each between
\* its Cart.findOne and its cart.save(); probe holds
\*   calls  the requests in progress: user, quantity asked, and the
\*          quantity of the line in the document the request loaded
\*   begun  the number of requests received
\*   added  per user, the quantity added by the requests answered 200
\* the stock is enough for every request, so that none is refused
RaceStock == 1 + MaxRequests * (MaxQty + 1)

CartRaceInit ==
    /\ products = [p \in Products |->
                    [price |-> PriceOf[p], discountedPrice |-> None, stock |-> RaceStock,
                     isActive |-> TRUE, sizes |-> {}, colors |-> {},
                     negotiationEnabled |-> FALSE, hiddenBottomPrice |-> None]]
    /\ coupons = [c \in Codes |-> NegotiationCoupon("percentage", 20, 0)]
    /\ orders = <<>>
    /\ inv = <<>>
    /\ failures = 0
    /\ carts = [u \in Users |->
                 [items |-> <<[productId |-> "p1", quantity |-> 1, size |-> NULL,
                               color |-> NULL, price |-> PriceOf["p1"]]>>,
                  appliedCoupon |-> NoCoupon]]
    /\ sessions = <<>>
    /\ fx = <<>>
    /\ now = 0
    /\ probe = [calls |-> <<>>, begun |-> 0, added |-> [u \in Users |-> 0]]

\* addToCart up to its cart.save(): the product is checked, the cart is
\* loaded and the new quantity of the line is computed on the loaded copy
AddLoad(u, quantity) ==
    LET k == FindLine(carts[u].items, "p1", NULL, NULL)
    IN  /\ probe.begun < MaxRequests
        /\ products["p1"].isActive
        /\ products["p1"].stock >= quantity
        /\ k > 0
        /\ carts[u].items[k].quantity + quantity <= products["p1"].stock
        /\ probe' = [probe EXCEPT
               !.begun = @ + 1,
               !.calls = Append(@, [userId |-> u, line |-> k, quantity |-> quantity,
                                    newQty |-> carts[u].items[k].quantity + quantity])]
        /\ UNCHANGED <<products, carts, coupons, orders, sessions, inv, fx, failures, now>>

\* await cart.save() of addToCart: the quantity computed on the loaded copy
\* is written to the line, and the request is answered 200
AddSave(i) ==
    LET call == probe.calls[i]
    IN  /\ carts' = [carts EXCEPT ![call.userId].items[call.line].quantity = call.newQty]
        /\ probe' = [probe EXCEPT !.calls = Remove(@, i),
                                  !.added[call.userId] = @ + call.quantity]
        /\ UNCHANGED <<products, coupons, orders, sessions, inv, fx, failures, now>>

CartRaceNext ==
    \/ \E u \in Users, q \in 1..(MaxQty + 1) : AddLoad(u, q)
    \/ \E i \in 1..Len(probe.calls) : AddSave(i)

CartRaceSpec == CartRaceInit /\ [][CartRaceNext]_vars

\* C31: concurrent mutations of one user's cart are serializable: when the
\* addToCart requests of a user on one line have all been answered, the
\* quantity of the line is what running them one after the other gives,
\* the quantity before plus every quantity added.
C31_AddsSerializable ==
    \A u \in Users :
        (\A i \in 1..Len(probe.calls) : probe.calls[i].userId # u) =>
            carts[u].items[1].quantity = 1 + probe.added[u]

\* ------------------------------------------------------ line identity
\* the product ids a request can spell: the canonical ids, and p1's id with
\* its hex digits in capitals
RequestIds == Products \cup {"P1"}
Sizes == {NULL, "M"}
Colors == {NULL, "red"}
MaxLines == 3       \* lines in the cart beyond which no more requests are sent

\* the cart has room for another line
Room(u) == IF u \in DOMAIN carts THEN Len(carts[u].items) < MaxLines ELSE TRUE

LineNext ==
    \/ \E p \in RequestIds, size \in Sizes, color \in Colors :
          Room("u1") /\ addToCart("u1", p, 1, size, color)
    \/ \E p \in RequestIds, size \in Sizes, color \in Colors :
          Room("u1") /\
          syncCart("u1", << [productId |-> p, quantity |-> 1, size |-> size,
                             color |-> color] >>)
    \/ \E k \in 1..2 : removeFromCart("u1", k)

\* one shopper adding and syncing one request at a time
LineSpec == Init /\ [][LineNext]_vars

\* C36: after any sequence of addToCart and syncCart requests run one at a
\* time, no cart holds two lines with the same (product, size, color).
C36_NoDuplicateLines ==
    \A u \in DOMAIN carts :
        \A j, k \in 1..Len(carts[u].items) :
            (/\ carts[u].items[j].productId = carts[u].items[k].productId
             /\ carts[u].items[j].size = carts[u].items[k].size
             /\ carts[u].items[j].color = carts[u].items[k].color) => j = k

\* ------------------------------------------------- metadata without items
\* the pipeline with sessions whose itemsJson the provider echoes as the
\* handler wrote it, as an empty list, not at all, or as text that is not
\* JSON
MetadataInit ==
    /\ Idle
    /\ now = 0
    /\ probe = <<>>
    /\ \E withCoupon \in BOOLEAN, n \in 1..MaxSessions :
          LET line == [productId |-> "p1", quantity |-> 1, size |-> NULL, color |-> NULL,
                       price |-> PriceOf["p1"]]
              snapshot == [code |-> "DEAL", discountType |-> "percentage",
                           discountValue |-> 20]
              cart == [items |-> <<line>>,
                       appliedCoupon |-> IF withCoupon THEN snapshot ELSE NoCoupon]
          IN  /\ carts = ("u1" :> cart)
              /\ \E texts \in [1..n -> {itemsMeta(cart.items), <<>>, Missing, Garbage}] :
                    sessions = [k \in 1..n |->
                                  [SessionOf("u1", cart) EXCEPT !.itemsJson = texts[k]]]
              /\ fx = [k \in 1..n |-> NoEffects]

MetadataSpec == MetadataInit /\ [][PipelineNext]_vars

\* the handler reads no items from the session's metadata
NoItems(sid) == ParseItems(sessions[sid]) = <<>>

\* C37: for a confirmed event whose itemsJson is missing, unparseable or an
\* empty list, no order is persisted and no stock decrement, usage record
\* or cart clearing is applied, and once its handling has ended every such
\* event has been acknowledged; when no session carries items, every
\* product, coupon and cart is as it was before the events.
C37_NoItemsNoEffects ==
    /\ \A sid \in Sids :
          NoItems(sid) =>
              /\ OrdersFor(sid) = 0
              /\ fx[sid].decs = 0 /\ fx[sid].recorded = 0 /\ fx[sid].cleared = 0
              /\ Quiet(sid) => fx[sid].acked = fx[sid].recv
    /\ (\A sid \in Sids : NoItems(sid)) =>
          /\ orders = <<>>
          /\ \A p \in Products : products[p].stock = InitStock
          /\ \A c \in Codes : coupons[c].usedCount = 0 /\ coupons[c].usedBy = <<>>
          /\ carts["u1"].items # <<>>

\* a confirmed event with unparseable itemsJson and one with no itemsJson,
\* both handled to the end and acknowledged with no database error
C37_Witness ==
    /\ Len(sessions) = 2
    /\ sessions[1].itemsJson = Garbage /\ sessions[2].itemsJson = Missing
    /\ sessions[1].couponCode # NULL
    /\ \A sid \in Sids :
          fx[sid].recv = 1 /\ fx[sid].acked = 1 /\ fx[sid].errors = {} /\ Quiet(sid)

\* ------------------------------------------------------------- quick buy
\* u1 and u2 each hold a cart with one line and the coupon applied; u1 buys
\* single products without going through the cart, u2 checks the cart out
QuickBuyInit ==
    /\ Idle
    /\ now = 0
    /\ probe = <<>>
    /\ sessions = <<>>
    /\ fx = <<>>
    /\ LET snapshot == [code |-> "DEAL", discountType |-> "percentage",
                        discountValue |-> 20]
           cartWith(p) == [items |-> << [productId |-> p, quantity |-> 1, size |-> NULL,
                                         color |-> NULL, price |-> PriceOf[p]] >>,
                           appliedCoupon |-> snapshot]
       IN  carts = ("u1" :> cartWith("p1")) @@ ("u2" :> cartWith("p2"))

QuickBuyNext ==
    \/ \E p \in Products : createSingleProductCheckout("u1", p, 1, NULL, NULL)
    \/ createCheckoutFromCart("u2")
    \/ \E sid \in 1..MaxSessions, sigOk \in BOOLEAN, type \in EventTypes :
          Receive(sid, sigOk, type)
    \/ \E i \in 1..Len(inv) : SaveOrder(i)
    \/ \E i \in 1..Len(inv) : DecStock(i)
    \/ \E i \in 1..Len(inv) : FindCoupon(i)
    \/ \E i \in 1..Len(inv) : RecordUsage(i)
    \/ \E i \in 1..Len(inv) : ClearCart(i)
    \/ \E i \in 1..Len(inv) : DbError(i)

QuickBuySpec == QuickBuyInit /\ [][QuickBuyNext]_vars

\* the session was created by createSingleProductCheckout
QuickBuy(sid) == sessions[sid].cartId = NULL /\ sessions[sid].couponCode = NULL

\* C38: fulfilling a quick-buy session persists its order and decrements
\* the one product's stock and nothing else: the buyer's cart never
\* changes, no usage is recorded and no cart is cleared for the session,
\* the buyer is never added to a coupon's usedBy, and while only quick-buy
\* sessions have been fulfilled every coupon is as it was created.
C38_QuickBuyFrame ==
    /\ [][carts'["u1"] = carts["u1"]]_vars
    /\ [](\A sid \in Sids :
            QuickBuy(sid) =>
                /\ fx[sid].recorded = 0 /\ fx[sid].cleared = 0
                /\ fx[sid].decs <= 1
                /\ "findCoupon" \notin fx[sid].errors
                /\ "recordUsage" \notin fx[sid].errors
                /\ "clearCart" \notin fx[sid].errors)
    /\ [](\A c \in Codes :
            /\ \A k \in 1..Len(coupons[c].usedBy) : coupons[c].usedBy[k] # "u1"
            /\ (\A sid \in Sids : ~QuickBuy(sid) => fx[sid].recorded = 0) =>
                  coupons[c].usedCount = 0 /\ coupons[c].usedBy = <<>>)
    /\ [](\A p \in Products :
            products[p].stock =
                InitStock - SumSeq([sid \in 1..Len(fx) |->
                                      fx[sid].decs * QtyIn(sid, p)]))

\* a quick-buy session fulfilled to the end (order persisted, stock
\* decremented, event acknowledged) while the buyer's cart still holds its
\* line and its coupon
C38_Witness ==
    \E sid \in Sids :
        /\ QuickBuy(sid)
        /\ OrdersFor(sid) = 1 /\ fx[sid].decs = 1 /\ fx[sid].acked = 1 /\ Quiet(sid)
        /\ products["p1"].stock = InitStock - 1
        /\ carts["u1"].items # <<>>
        /\ carts["u1"].appliedCoupon.code = "DEAL"

====
